---- MODULE Spec2Model ----
(***************************************************************************)
(* Model of the AI-SWE framework: the Task, Challenge and Solution         *)
(* registries (src/framework, src/challenges, src/solutions) and the       *)
(* FrameworkEvaluator of src/evaluate.py.                                  *)
(*                                                                         *)
(* A Python dict is a sequence of records with pairwise distinct names, in *)
(* insertion order.  Floats are exact fixed-point integers:                *)
(*   frequency, task_coverage, solution_readiness, the weights : tenths    *)
(*   implementation_difficulty, resource_requirements          : hundredths*)
(*   time_to_deployment                                        : months    *)
(*   impact_score()      : 1/10000    feasibility_score() : 1/24000000     *)
(* A mean is kept as the pair of its numerator and denominator.            *)
(***************************************************************************)
EXTENDS Integers, Sequences, FiniteSets, TLC

VARIABLES tasks, challenges, solutions, commands, hooks, pc, regs, result, calls

vars == <<tasks, challenges, solutions, commands, hooks, pc, regs, result, calls>>

\* Number of register_* calls made after construction.
MaxRegs == 3

-----------------------------------------------------------------------------
(* Generic helpers                                                          *)

RECURSIVE SumSeq(_)
SumSeq(s) == IF s = <<>> THEN 0 ELSE Head(s) + SumSeq(Tail(s))

RECURSIVE SelectIdx(_, _, _)
\* The sub-sequence of s at the indices of keep, in order (a list comprehension).
SelectIdx(s, keep, i) ==
    IF i > Len(s) THEN <<>>
    ELSE IF i \in keep THEN <<s[i]>> \o SelectIdx(s, keep, i + 1)
    ELSE SelectIdx(s, keep, i + 1)

Filter(s, keep) == SelectIdx(s, keep, 1)

Max(a, b) == IF a >= b THEN a ELSE b

Names(s) == [i \in 1..Len(s) |-> s[i].name]

NameSet(s) == {s[i].name : i \in 1..Len(s)}

\* The key is removed and put again: an existing key moves behind the others.
DictPutLast(d, rec) ==
    Append(Filter(d, {i \in 1..Len(d) : d[i].name # rec.name}), rec)

\* dict[key] = value : replace in place when the key exists, else append.
DictPut(d, rec) ==
    IF \E i \in 1..Len(d) : d[i].name = rec.name
    THEN [i \in 1..Len(d) |-> IF d[i].name = rec.name THEN rec ELSE d[i]]
    ELSE Append(d, rec)

-----------------------------------------------------------------------------
(* Enumerations                                                             *)

ScopeMeasure == {"function", "unit", "project"}
LogicalComplexity == {"low", "medium", "high"}
HumanIntervention == {"low", "medium", "high"}
TaskCategory == {"code_generation", "code_transformation", "testing_analysis",
                 "software_maintenance", "scaffolding_metacode", "formal_verification"}
SeverityLevel == {"critical", "high", "medium", "low"}
EffectivenessLevel == {"high", "medium", "low", "unknown"}

-----------------------------------------------------------------------------
(* Records                                                                  *)

AITask(name, category, scope, complexity, intervention) ==
    [name |-> name, category |-> category,
     metrics |-> [scope |-> scope, complexity |-> complexity, intervention |-> intervention]]

Challenge(name, category, affected, severity, frequency, coverage, readiness) ==
    [name |-> name, category |-> category, affected_tasks |-> affected,
     metrics |-> [severity |-> severity, frequency |-> frequency,
                  task_coverage |-> coverage, solution_readiness |-> readiness],
     related_challenges |-> <<>>]

Solution(name, category, addressed, effectiveness, difficulty, resources, months, status) ==
    [name |-> name, category |-> category, addressed_challenges |-> addressed,
     metrics |-> [effectiveness |-> effectiveness, implementation_difficulty |-> difficulty,
                  resource_requirements |-> resources, time_to_deployment |-> months],
     status |-> status]

severity_weights == [critical |-> 10, high |-> 8, medium |-> 6, low |-> 4]

\* The readiness itself in place of its complement.
impact_score_by_readiness(m) ==
    severity_weights[m.severity] * m.frequency * m.task_coverage * m.solution_readiness

\* ChallengeMetrics.impact_score, in 1/10000.
impact_score(m) ==
    severity_weights[m.severity] * m.frequency * m.task_coverage * (10 - m.solution_readiness)

effectiveness_weights == [high |-> 10, medium |-> 7, low |-> 4, unknown |-> 5]

\* The time factor 1 - t/24 without its floor of 0.1.
feasibility_score_unfloored(m) ==
    effectiveness_weights[m.effectiveness] * (100 - m.implementation_difficulty)
        * (100 - m.resource_requirements) * (240 - 10 * m.time_to_deployment)

\* SolutionMetrics.feasibility_score, in 1/24000000; max(0.1, 1 - t/24) in 1/240.
feasibility_score(m) ==
    effectiveness_weights[m.effectiveness] * (100 - m.implementation_difficulty)
        * (100 - m.resource_requirements) * Max(24, 240 - 10 * m.time_to_deployment)

-----------------------------------------------------------------------------
(* Seed data, in registration order                                         *)

SeedTasks == <<
    AITask("Function Completion", "code_generation", "function", "low", "low"),
    AITask("Natural Language to Code", "code_generation", "unit", "medium", "medium"),
    AITask("Code Refactoring", "code_transformation", "project", "low", "high"),
    AITask("Code Migration", "code_transformation", "project", "high", "high"),
    AITask("Unit Test Generation", "testing_analysis", "function", "medium", "low"),
    AITask("Vulnerability Detection", "testing_analysis", "project", "high", "medium"),
    AITask("Code Documentation", "software_maintenance", "unit", "low", "low"),
    AITask("Code Navigation", "software_maintenance", "project", "medium", "medium"),
    AITask("CI/CD Configuration", "scaffolding_metacode", "project", "medium", "high"),
    AITask("Property Verification", "formal_verification", "unit", "high", "high") >>

SeedChallenges == <<
    Challenge("Evaluation and Benchmarks", "evaluation_benchmarks",
        {"Function Completion", "Natural Language to Code", "Code Refactoring",
         "Unit Test Generation", "Code Documentation", "Property Verification"},
        "critical", 9, 8, 3),
    Challenge("Effective Tool Usage", "effective_tool_usage",
        {"Code Migration", "Vulnerability Detection", "Code Navigation",
         "CI/CD Configuration", "Property Verification"},
        "high", 7, 6, 4),
    Challenge("Human-AI Collaboration", "human_ai_collaboration",
        {"Natural Language to Code", "Code Refactoring", "Code Migration",
         "Code Navigation", "CI/CD Configuration"},
        "critical", 8, 9, 2),
    Challenge("Long-Horizon Code Planning", "long_horizon_planning",
        {"Code Refactoring", "Code Migration", "Natural Language to Code",
         "CI/CD Configuration"},
        "high", 6, 5, 3),
    Challenge("Large Scope and Long Contexts", "large_scope_contexts",
        {"Code Migration", "Code Refactoring", "Code Navigation",
         "Vulnerability Detection", "CI/CD Configuration"},
        "high", 8, 7, 4),
    Challenge("Semantic Understanding of Codebases", "semantic_understanding",
        {"Code Migration", "Vulnerability Detection", "Code Navigation",
         "Code Refactoring", "Property Verification"},
        "critical", 7, 8, 2),
    Challenge("Low-Resource Languages and Specialized Libraries", "low_resource_adaptation",
        {"Natural Language to Code", "Code Migration", "Code Documentation",
         "Unit Test Generation", "Property Verification"},
        "high", 5, 4, 3),
    Challenge("Library and API Version Updates", "version_management",
        {"Natural Language to Code", "Code Migration", "Code Documentation",
         "Unit Test Generation", "CI/CD Configuration"},
        "medium", 6, 6, 3),
    Challenge("High Logical Complexity and OOD Domains", "high_complexity_ood",
        {"Code Migration", "Vulnerability Detection", "Property Verification",
         "Natural Language to Code"},
        "critical", 3, 3, 1) >>

\* The relationship table of _initialize_challenge_relationships, in dict order.
relationships == <<
    [name |-> "Evaluation and Benchmarks",
     related |-> <<"Human-AI Collaboration", "Semantic Understanding">>],
    [name |-> "Effective Tool Usage",
     related |-> <<"Large Scope and Long Contexts", "High Logical Complexity and OOD">>],
    [name |-> "Human-AI Collaboration",
     related |-> <<"Long-Horizon Code Planning", "Evaluation and Benchmarks">>],
    [name |-> "Long-Horizon Code Planning",
     related |-> <<"Semantic Understanding", "Human-AI Collaboration">>],
    [name |-> "Large Scope and Long Contexts",
     related |-> <<"Semantic Understanding", "Effective Tool Usage">>],
    [name |-> "Semantic Understanding",
     related |-> <<"Large Scope and Long Contexts",
                   "Low-Resource Languages and Specialized Libraries">>],
    [name |-> "Low-Resource Languages and Specialized Libraries",
     related |-> <<"Version Management", "Semantic Understanding">>],
    [name |-> "Library and API Version Updates",
     related |-> <<"Low-Resource Languages and Specialized Libraries",
                   "Human-AI Collaboration">>],
    [name |-> "High Logical Complexity and OOD Domains",
     related |-> <<"Effective Tool Usage", "Long-Horizon Code Planning">>] >>

SeedSolutions == <<
    Solution("Automatic Data Curation", "data_collection",
        {"Evaluation and Benchmarks", "Semantic Understanding of Codebases",
         "High Logical Complexity and OOD Domains"},
        "high", 60, 70, 12, "prototype"),
    Solution("Human-Centric Data Curation", "data_collection",
        {"Human-AI Collaboration", "Evaluation and Benchmarks",
         "Long-Horizon Code Planning"},
        "high", 80, 90, 18, "research"),
    Solution("Environment Design for Code RL", "training_methods",
        {"Long-Horizon Code Planning", "High Logical Complexity and OOD Domains",
         "Effective Tool Usage"},
        "high", 90, 95, 24, "prototype"),
    Solution("Specialized Codebase Adaptation", "training_methods",
        {"Low-Resource Languages and Specialized Libraries",
         "Library and API Version Updates", "Large Scope and Long Contexts"},
        "medium", 70, 60, 15, "research"),
    Solution("Human Collaboration Training", "training_methods",
        {"Human-AI Collaboration", "Evaluation and Benchmarks",
         "Long-Horizon Code Planning"},
        "medium", 80, 70, 20, "research"),
    Solution("Semantic-Aware Embeddings and Retrieval", "inference_approaches",
        {"Large Scope and Long Contexts", "Semantic Understanding of Codebases",
         "Low-Resource Languages and Specialized Libraries"},
        "high", 60, 50, 10, "prototype"),
    Solution("SWE Tool Integration", "inference_approaches",
        {"Effective Tool Usage", "High Logical Complexity and OOD Domains",
         "Semantic Understanding of Codebases"},
        "high", 80, 70, 16, "research"),
    Solution("Human Supervision Scaffolding", "inference_approaches",
        {"Human-AI Collaboration", "Evaluation and Benchmarks",
         "Large Scope and Long Contexts"},
        "medium", 50, 40, 8, "prototype"),
    Solution("SWE Development Framework Integration", "framework_integration",
        {"Long-Horizon Code Planning", "Large Scope and Long Contexts",
         "Effective Tool Usage"},
        "high", 70, 60, 14, "prototype") >>

-----------------------------------------------------------------------------
(* FrameworkRegistry (src/framework/__init__.py)                            *)

register_task(task) == DictPut(tasks, task)

\* Only the values that occur among the tasks get a key.
CountByOccurring(values, keys) ==
    [v \in {keys[i] : i \in 1..Len(keys)} |->
        Cardinality({i \in 1..Len(keys) : keys[i] = v})]

\* A value counts once however many tasks have it.
CountByPresence(values, keys) ==
    [v \in values |-> IF \E i \in 1..Len(keys) : keys[i] = v THEN 1 ELSE 0]

\* One dimension of get_task_distribution: every enum value starts at 0 and
\* is incremented once per task whose key (keys[i], in dict order) it is.
CountBy(values, keys) ==
    [v \in values |-> Cardinality({i \in 1..Len(keys) : keys[i] = v})]

\* The scope counter keyed by the wrong metric.
TaskScopeFromComplexity(t) == t.metrics.complexity

TaskScope(t) == t.metrics.scope
TaskComplexity(t) == t.metrics.complexity
TaskIntervention(t) == t.metrics.intervention
TaskCategoryOf(t) == t.category

get_task_distribution ==
    [scope |-> CountBy(ScopeMeasure, [i \in 1..Len(tasks) |-> TaskScope(tasks[i])]),
     complexity |-> CountBy(LogicalComplexity,
                        [i \in 1..Len(tasks) |-> TaskComplexity(tasks[i])]),
     intervention |-> CountBy(HumanIntervention,
                        [i \in 1..Len(tasks) |-> TaskIntervention(tasks[i])]),
     category |-> CountBy(TaskCategory, [i \in 1..Len(tasks) |-> TaskCategoryOf(tasks[i])])]

-----------------------------------------------------------------------------
(* ChallengeRegistry (src/challenges/__init__.py)                           *)

\* The stored entry is updated field by field and keeps its wired list.
register_challenge_keeping_related(challenge) ==
    DictPut(challenges,
        IF challenge.name \in NameSet(challenges)
        THEN [challenge EXCEPT !.related_challenges =
                (CHOOSE old \in {challenges[i] : i \in 1..Len(challenges)} :
                    old.name = challenge.name).related_challenges]
        ELSE challenge)

register_challenge(challenge) == DictPut(challenges, challenge)

get_challenges_by_category(category) ==
    Filter(challenges, {i \in 1..Len(challenges) : challenges[i].category = category})

RECURSIVE WireFrom(_, _)
\* The loop of _initialize_challenge_relationships from table row k on.
WireFrom(reg, k) ==
    IF k > Len(relationships) THEN reg
    ELSE WireFrom(
            [i \in 1..Len(reg) |->
                IF reg[i].name = relationships[k].name
                THEN [reg[i] EXCEPT !.related_challenges = relationships[k].related]
                ELSE reg[i]],
            k + 1)

\* Only the related names that are registered are kept.
_initialize_challenge_relationships_resolving(reg) ==
    [i \in 1..Len(reg) |->
        [WireFrom(reg, 1)[i] EXCEPT !.related_challenges =
            SelectSeq(WireFrom(reg, 1)[i].related_challenges,
                      LAMBDA n : n \in NameSet(reg))]]

_initialize_challenge_relationships(reg) == WireFrom(reg, 1)

get_challenges_by_severity(severity) ==
    Filter(challenges, {i \in 1..Len(challenges) : challenges[i].metrics.severity = severity})

\* The filter comparing the challenge's own name with the task name.
get_task_challenges_by_name(task_name) ==
    Filter(challenges, {i \in 1..Len(challenges) : challenges[i].name = task_name})

get_task_challenges(task_name) ==
    Filter(challenges, {i \in 1..Len(challenges) : task_name \in challenges[i].affected_tasks})

RECURSIVE InsertDescStrict(_, _)
\* x goes in front of the entries with an equal key: equal keys end reversed.
InsertDescStrict(sorted, x) ==
    IF sorted = <<>> THEN <<x>>
    ELSE IF Head(sorted).key > x.key
         THEN <<Head(sorted)>> \o InsertDescStrict(Tail(sorted), x)
    ELSE <<x>> \o sorted

RECURSIVE InsertDesc(_, _)
\* x goes behind every entry whose key is >= its own: a stable descending sort.
InsertDesc(sorted, x) ==
    IF sorted = <<>> THEN <<x>>
    ELSE IF Head(sorted).key >= x.key THEN <<Head(sorted)>> \o InsertDesc(Tail(sorted), x)
    ELSE <<x>> \o sorted

RECURSIVE SortDesc(_)
SortDesc(keyed) ==
    IF keyed = <<>> THEN <<>>
    ELSE InsertDesc(SortDesc(SubSeq(keyed, 1, Len(keyed) - 1)), keyed[Len(keyed)])

get_challenge_impact_ranking ==
    LET keyed == [i \in 1..Len(challenges) |->
                    [key |-> impact_score(challenges[i].metrics), rec |-> challenges[i]]]
        sorted == SortDesc(keyed)
    IN  [i \in 1..Len(sorted) |-> sorted[i].rec]

get_priority_challenges(top_n) ==
    LET ranking == get_challenge_impact_ranking
    IN  SubSeq(ranking, 1, IF top_n < Len(ranking) THEN top_n ELSE Len(ranking))

\* Each category keeps the solution_readiness of its last challenge only.
assess_system_readiness_of_last ==
    LET first == {i \in 1..Len(challenges) :
                    \A j \in 1..(i - 1) : challenges[j].category # challenges[i].category}
        last  == {i \in 1..Len(challenges) :
                    \A j \in (i + 1)..Len(challenges) :
                        challenges[j].category # challenges[i].category}
        cats  == Filter(challenges, first)
    IN  [k \in 1..Len(cats) |->
            [category |-> cats[k].category,
             total |-> SumSeq([j \in 1..Len(Filter(challenges, last)) |->
                          IF Filter(challenges, last)[j].category = cats[k].category
                          THEN Filter(challenges, last)[j].metrics.solution_readiness
                          ELSE 0]),
             count |-> 1]]

\* The categories in order of first occurrence, each with the sum and the
\* number of its solution_readiness values (the mean is total / count).
assess_system_readiness ==
    LET first == {i \in 1..Len(challenges) :
                    \A j \in 1..(i - 1) : challenges[j].category # challenges[i].category}
        cats  == Filter(challenges, first)
        of(c) == {i \in 1..Len(challenges) : challenges[i].category = c}
    IN  [k \in 1..Len(cats) |->
            [category |-> cats[k].category,
             total |-> SumSeq([j \in 1..Len(Filter(challenges, of(cats[k].category))) |->
                          Filter(challenges, of(cats[k].category))[j].metrics.solution_readiness]),
             count |-> Cardinality(of(cats[k].category))]]

-----------------------------------------------------------------------------
(* SolutionRegistry (src/solutions/__init__.py)                             *)

\* A solution is stored only if every challenge it addresses is registered.
register_solution_resolving(solution) ==
    IF solution.addressed_challenges \subseteq NameSet(challenges)
    THEN DictPut(solutions, solution)
    ELSE solutions

register_solution(solution) == DictPut(solutions, solution)

\* Only the first addressing solution is returned.
get_solutions_for_challenge_first(challenge_name) ==
    LET all == Filter(solutions,
                {i \in 1..Len(solutions) : challenge_name \in solutions[i].addressed_challenges})
    IN  IF all = <<>> THEN <<>> ELSE <<all[1]>>

\* Set equality in place of membership.
get_solutions_for_challenge_exact(challenge_name) ==
    Filter(solutions,
           {i \in 1..Len(solutions) : solutions[i].addressed_challenges = {challenge_name}})

get_solutions_for_challenge(challenge_name) ==
    Filter(solutions,
           {i \in 1..Len(solutions) : challenge_name \in solutions[i].addressed_challenges})

get_quick_wins(max_time_months) ==
    Filter(solutions,
           {i \in 1..Len(solutions) : solutions[i].metrics.time_to_deployment <= max_time_months})

\* Every effectiveness but low and unknown passes, whatever the argument.
get_high_impact_solutions_at_least(min_effectiveness) ==
    Filter(solutions,
           {i \in 1..Len(solutions) :
                solutions[i].metrics.effectiveness \in {min_effectiveness, "high", "medium"}})

get_high_impact_solutions(min_effectiveness) ==
    Filter(solutions,
           {i \in 1..Len(solutions) : solutions[i].metrics.effectiveness = min_effectiveness})

get_feasibility_ranking ==
    LET keyed == [i \in 1..Len(solutions) |->
                    [key |-> feasibility_score(solutions[i].metrics), rec |-> solutions[i]]]
        sorted == SortDesc(keyed)
    IN  [i \in 1..Len(sorted) |-> sorted[i].rec]

\* Strict comparisons: a boundary value falls into the later bucket.
RoadmapBucketStrict(solution) ==
    LET time == solution.metrics.time_to_deployment
    IN  IF time < 6 THEN "Short-term (0-6 months)"
        ELSE IF time < 12 THEN "Medium-term (6-12 months)"
        ELSE IF time < 18 THEN "Long-term (12-18 months)"
        ELSE "Research (18+ months)"

\* The bucket a solution is appended to (the if/elif chain).
RoadmapBucket(solution) ==
    LET time == solution.metrics.time_to_deployment
    IN  IF time <= 6 THEN "Short-term (0-6 months)"
        ELSE IF time <= 12 THEN "Medium-term (6-12 months)"
        ELSE IF time <= 18 THEN "Long-term (12-18 months)"
        ELSE "Research (18+ months)"

RoadmapKeys == <<"Short-term (0-6 months)", "Medium-term (6-12 months)",
                 "Long-term (12-18 months)", "Research (18+ months)">>

\* SolutionRegistry.get_implementation_roadmap: the four buckets in dict order.
solution_roadmap ==
    [k \in 1..Len(RoadmapKeys) |->
        [timeline |-> RoadmapKeys[k],
         solutions |-> Filter(solutions,
                        {i \in 1..Len(solutions) : RoadmapBucket(solutions[i]) = RoadmapKeys[k]})]]

\* One entry per registered challenge, in the Challenge Registry's order.
assess_solution_coverage ==
    [k \in 1..Len(challenges) |->
        [name |-> challenges[k].name,
         count |-> Len(get_solutions_for_challenge(challenges[k].name))]]

-----------------------------------------------------------------------------
(* FrameworkEvaluator (src/evaluate.py)                                     *)
(* Every operation returns [kind, value, calls]: kind is "ok", "error" (a   *)
(* returned error record) or "raised" (an exception leaves the call), and   *)
(* calls lists the registry methods the operation invoked, in order.        *)

RECURSIVE GatherSolutions(_)
\* task_solutions after the extend loop over task_challenges.
GatherSolutions(task_challenges) ==
    IF task_challenges = <<>> THEN <<>>
    ELSE get_solutions_for_challenge(Head(task_challenges).name)
            \o GatherSolutions(Tail(task_challenges))

\* list(set(task_solutions)): Solution is a dataclass with eq and without
\* frozen, so it is unhashable and set() of a non-empty list raises TypeError.
RemoveDuplicates(task_solutions) ==
    IF task_solutions = <<>>
    THEN [raised |-> FALSE, list |-> <<>>]
    ELSE [raised |-> TRUE, list |-> <<>>]

\* The sum of the readiness values, not divided by their number.
avg_solution_readiness_summed(task_challenges) ==
    IF task_challenges # <<>>
    THEN [num |-> 1000 * Len(task_challenges)
                    * SumSeq([i \in 1..Len(task_challenges) |->
                        task_challenges[i].metrics.solution_readiness]),
          den |-> 10000 * Len(task_challenges)]
    ELSE [num |-> 10000, den |-> 10000]

\* avg_solution_readiness as num/den, den = 10000 * len(task_challenges).
avg_solution_readiness(task_challenges) ==
    IF task_challenges # <<>>
    THEN [num |-> 1000 * SumSeq([i \in 1..Len(task_challenges) |->
                        task_challenges[i].metrics.solution_readiness]),
          den |-> 10000 * Len(task_challenges)]
    ELSE [num |-> 10000, den |-> 10000]

\* challenge_impact as num/den over the same denominator.
challenge_impact(task_challenges) ==
    IF task_challenges # <<>>
    THEN [num |-> SumSeq([i \in 1..Len(task_challenges) |->
                        impact_score(task_challenges[i].metrics)]),
          den |-> 10000 * Len(task_challenges)]
    ELSE [num |-> 0, den |-> 10000]

\* The difference without the clamp at 0.
readiness_score_unclamped(task_challenges) ==
    [num |-> avg_solution_readiness(task_challenges).num
                - challenge_impact(task_challenges).num,
     den |-> avg_solution_readiness(task_challenges).den]

readiness_score(task_challenges) ==
    [num |-> Max(0, avg_solution_readiness(task_challenges).num
                        - challenge_impact(task_challenges).num),
     den |-> avg_solution_readiness(task_challenges).den]

\* The thresholds compared with >=: a score on a threshold gets the upper tier.
_get_task_recommendation_inclusive(score) ==
    IF 10 * score.num >= 8 * score.den THEN "HIGH CONFIDENCE"
    ELSE IF 10 * score.num >= 6 * score.den THEN "MEDIUM CONFIDENCE"
    ELSE IF 10 * score.num >= 4 * score.den THEN "LOW CONFIDENCE"
    ELSE "RESEARCH NEEDED"

_get_task_recommendation(score) ==
    IF 10 * score.num > 8 * score.den THEN "HIGH CONFIDENCE"
    ELSE IF 10 * score.num > 6 * score.den THEN "MEDIUM CONFIDENCE"
    ELSE IF 10 * score.num > 4 * score.den THEN "LOW CONFIDENCE"
    ELSE "RESEARCH NEEDED"

TaskNamed(task_name) == tasks[CHOOSE i \in 1..Len(tasks) : tasks[i].name = task_name]

\* evaluate_task past its guard: the task is registered.
evaluate_registered_task(task_name) ==
    LET task_challenges == get_task_challenges(task_name)
        gathered == GatherSolutions(task_challenges)
        task_solutions == RemoveDuplicates(gathered)
        calls_made == <<"get_task_challenges">>
                        \o [i \in 1..Len(task_challenges) |-> "get_solutions_for_challenge"]
    IN  IF task_solutions.raised
        THEN [kind |-> "raised", value |-> [exception |-> "TypeError"],
              calls |-> calls_made]
        ELSE [kind |-> "ok",
              value |-> [task |-> TaskNamed(task_name),
                         challenges |-> task_challenges,
                         solutions |-> task_solutions.list,
                         readiness_score |-> readiness_score(task_challenges),
                         recommendation |->
                            _get_task_recommendation(readiness_score(task_challenges))],
              calls |-> calls_made]

\* The guard dropped: tasks[task_name] raises KeyError for an unknown name.
evaluate_task_unguarded(task_name) ==
    IF task_name \notin NameSet(tasks)
    THEN [kind |-> "raised", value |-> [exception |-> "KeyError"], calls |-> <<>>]
    ELSE evaluate_registered_task(task_name)

evaluate_task(task_name) ==
    IF task_name \notin NameSet(tasks)
    THEN [kind |-> "error", value |-> [error |-> task_name], calls |-> <<>>]
    ELSE evaluate_registered_task(task_name)

\* A challenge with two solutions is told to diversify as well.
_generate_coverage_recommendations_below_three(coverage) ==
    LET flagged == Filter(coverage, {i \in 1..Len(coverage) : coverage[i].count \in {0, 1, 2}})
    IN  [i \in 1..Len(flagged) |->
            [text |-> IF flagged[i].count = 0 THEN "URGENT" ELSE "Diversify",
             challenge |-> flagged[i].name]]

_generate_coverage_recommendations(coverage) ==
    LET flagged == Filter(coverage, {i \in 1..Len(coverage) : coverage[i].count \in {0, 1}})
    IN  [i \in 1..Len(flagged) |->
            [text |-> IF flagged[i].count = 0 THEN "URGENT" ELSE "Diversify",
             challenge |-> flagged[i].name]]

\* A challenge with two solutions is listed as under-addressed too.
analyze_challenge_coverage_under_three ==
    LET coverage == assess_solution_coverage
        total_challenges == Len(challenges)
        covered == Filter(coverage, {i \in 1..Len(coverage) : coverage[i].count > 0})
        counts == [i \in 1..Len(coverage) |-> coverage[i].count]
    IN  [kind |-> "ok",
         value |-> [total_challenges |-> total_challenges,
                    covered_challenges |-> Len(covered),
                    coverage_percentage |->
                        IF total_challenges > 0
                        THEN [num |-> 100 * Len(covered), den |-> total_challenges]
                        ELSE [num |-> 0, den |-> 1],
                    avg_solutions_per_challenge |->
                        IF total_challenges > 0
                        THEN [num |-> SumSeq(counts), den |-> total_challenges]
                        ELSE [num |-> 0, den |-> 1],
                    coverage_details |-> coverage,
                    uncovered |-> Names(Filter(coverage,
                        {i \in 1..Len(coverage) : coverage[i].count = 0})),
                    under_addressed |-> Names(Filter(coverage,
                        {i \in 1..Len(coverage) :
                            0 < coverage[i].count /\ coverage[i].count < 3})),
                    recommendations |-> _generate_coverage_recommendations(coverage)],
         calls |-> <<"assess_solution_coverage">>]

analyze_challenge_coverage ==
    LET coverage == assess_solution_coverage
        total_challenges == Len(challenges)
        covered == Filter(coverage, {i \in 1..Len(coverage) : coverage[i].count > 0})
        counts == [i \in 1..Len(coverage) |-> coverage[i].count]
    IN  [kind |-> "ok",
         value |-> [total_challenges |-> total_challenges,
                    covered_challenges |-> Len(covered),
                    coverage_percentage |->
                        IF total_challenges > 0
                        THEN [num |-> 100 * Len(covered), den |-> total_challenges]
                        ELSE [num |-> 0, den |-> 1],
                    avg_solutions_per_challenge |->
                        IF total_challenges > 0
                        THEN [num |-> SumSeq(counts), den |-> total_challenges]
                        ELSE [num |-> 0, den |-> 1],
                    coverage_details |-> coverage,
                    uncovered |-> Names(Filter(coverage,
                        {i \in 1..Len(coverage) : coverage[i].count = 0})),
                    under_addressed |-> Names(Filter(coverage,
                        {i \in 1..Len(coverage) :
                            0 < coverage[i].count /\ coverage[i].count < 2})),
                    recommendations |-> _generate_coverage_recommendations(coverage)],
         calls |-> <<"assess_solution_coverage">>]

\* "word" in timeline, for the four dict keys of the solution roadmap.
InTimeline(word, timeline) ==
    <<word, timeline>> \in {<<"Short-term", "Short-term (0-6 months)">>,
                            <<"Medium-term", "Medium-term (6-12 months)">>,
                            <<"Long-term", "Long-term (12-18 months)">>,
                            <<"Research", "Research (18+ months)">>}

RECURSIVE RelabelFrom(_, _, _)
\* The loop over solution_roadmap.items() from bucket k on: each branch
\* assigns (not extends) the list of its target key.
RelabelFrom(roadmap, buckets, k) ==
    IF k > Len(buckets) THEN roadmap
    ELSE LET timeline == buckets[k].timeline
             listed == buckets[k].solutions
         IN  RelabelFrom(
                IF InTimeline("Short-term", timeline)
                THEN [roadmap EXCEPT !.short_term_goals = listed]
                ELSE IF InTimeline("Medium-term", timeline)
                THEN [roadmap EXCEPT !.medium_term_objectives = listed]
                ELSE IF InTimeline("Long-term", timeline) \/ InTimeline("Research", timeline)
                THEN [roadmap EXCEPT !.long_term_research = listed]
                ELSE roadmap,
                buckets, k + 1)

QuickWinMonths == 6
PriorityTopN == 5

get_implementation_roadmap ==
    LET quick_wins == get_quick_wins(QuickWinMonths)
        high_impact == get_high_impact_solutions("high")
        start == [immediate_actions |-> <<>>,
                  short_term_goals |-> <<>>,
                  medium_term_objectives |-> <<>>,
                  long_term_research |-> <<>>,
                  challenge_priorities |-> get_priority_challenges(PriorityTopN),
                  quick_wins |-> Filter(quick_wins,
                      {i \in 1..Len(quick_wins) :
                          \E j \in 1..Len(high_impact) : high_impact[j] = quick_wins[i]})]
    IN  [kind |-> "ok",
         value |-> RelabelFrom(start, solution_roadmap, 1),
         calls |-> <<"get_implementation_roadmap", "get_priority_challenges",
                     "get_quick_wins", "get_high_impact_solutions">>]

_identify_task_gaps(distribution) ==
    (IF distribution.scope["project"] < 2
     THEN <<"Limited project-level task coverage">> ELSE <<>>)
    \o (IF distribution.complexity["high"] < 2
        THEN <<"Insufficient high-complexity task representation">> ELSE <<>>)

RECURSIVE ProductOfCounts(_)
ProductOfCounts(readiness) ==
    IF readiness = <<>> THEN 1 ELSE Head(readiness).count * ProductOfCounts(Tail(readiness))

\* The mean over all challenges in place of the mean of the category means.
overall_readiness_over_challenges(readiness) ==
    IF readiness # <<>>
    THEN [num |-> SumSeq([k \in 1..Len(readiness) |-> readiness[k].total]),
          den |-> 10 * SumSeq([k \in 1..Len(readiness) |-> readiness[k].count])]
    ELSE [num |-> 0, den |-> 1]

\* sum(solution_readiness.values()) / len(solution_readiness), as num/den over
\* the common denominator 10 * (product of the category sizes) * (categories).
overall_readiness(readiness) ==
    IF readiness # <<>>
    THEN [num |-> SumSeq([k \in 1..Len(readiness) |->
                        readiness[k].total * (ProductOfCounts(readiness) \div readiness[k].count)]),
          den |-> 10 * ProductOfCounts(readiness) * Len(readiness)]
    ELSE [num |-> 0, den |-> 1]

_grade_readiness(score) ==
    IF 10 * score.num >= 9 * score.den THEN "A (Excellent)"
    ELSE IF 10 * score.num >= 8 * score.den THEN "B (Good)"
    ELSE IF 10 * score.num >= 7 * score.den THEN "C (Fair)"
    ELSE IF 10 * score.num >= 6 * score.den THEN "D (Poor)"
    ELSE "F (Critical)"

\* feasibility_score() > 0.5
IsFeasible(solution) == 2 * feasibility_score(solution.metrics) > 24000000

\* The body of the loop over critical_challenges[:3]: the recommendation, if
\* any, for one challenge.  about names the challenge of the iteration.
CriticalRecommendation(challenge) ==
    LET addressing == get_solutions_for_challenge(challenge.name)
        feasible_solutions == Filter(addressing,
                                {i \in 1..Len(addressing) : IsFeasible(addressing[i])})
    IN  IF addressing = <<>>
        THEN <<[text |-> "Develop solutions", name |-> challenge.name,
                about |-> challenge.name]>>
        ELSE IF feasible_solutions # <<>>
        THEN <<[text |-> "Prioritize implementation", name |-> feasible_solutions[1].name,
                about |-> challenge.name]>>
        ELSE <<>>

RECURSIVE CriticalRecommendations(_)
CriticalRecommendations(top) ==
    IF top = <<>> THEN <<>>
    ELSE CriticalRecommendation(Head(top)) \o CriticalRecommendations(Tail(top))

TopCritical == 3

_generate_improvement_recommendations(readiness, critical_challenges) ==
    (IF 10 * readiness.num < 7 * readiness.den
     THEN <<[text |-> "URGENT", name |-> "", about |-> ""]>> ELSE <<>>)
    \o (IF Len(critical_challenges) > TopCritical
        THEN <<[text |-> "Focus on top 3", name |-> "", about |-> ""]>> ELSE <<>>)
    \o CriticalRecommendations(
            SubSeq(critical_challenges, 1,
                   IF Len(critical_challenges) < TopCritical
                   THEN Len(critical_challenges) ELSE TopCritical))

benchmark_current_state ==
    LET task_distribution == get_task_distribution
        critical_challenges == get_challenges_by_severity("critical")
        high_challenges == get_challenges_by_severity("high")
        solution_readiness == assess_system_readiness
        overall == overall_readiness(solution_readiness)
    IN  [kind |-> "ok",
         value |-> [distribution |-> task_distribution,
                    total_tasks |-> Len(tasks),
                    coverage_gaps |-> _identify_task_gaps(task_distribution),
                    total_challenges |-> Len(challenges),
                    critical_count |-> Len(critical_challenges),
                    high_impact_count |-> Len(high_challenges),
                    critical_challenges |-> Names(critical_challenges),
                    high_impact_challenges |-> Names(high_challenges),
                    solution_readiness |-> solution_readiness,
                    overall_readiness |-> overall,
                    readiness_grade |-> _grade_readiness(overall),
                    recommendations |->
                        _generate_improvement_recommendations(overall, critical_challenges)],
         calls |-> <<"get_task_distribution", "get_challenges_by_severity",
                     "get_challenges_by_severity", "assess_system_readiness">>
                    \o [i \in 1..(IF Len(critical_challenges) < TopCritical
                                  THEN Len(critical_challenges) ELSE TopCritical) |->
                            "get_solutions_for_challenge"]]

-----------------------------------------------------------------------------
(* ClaudeIntegration (src/claude/__init__.py)                               *)
(* commands is the dict of ClaudeCommand objects; hooks is the dict of hook *)
(* lists, kept as the one sequence of all hooks in registration order.      *)
(* A parameter dict is a sequence of [name, value] pairs.  A handler is     *)
(* known by what a call of it does: it returns or it raises.                *)

ExecutionMode == {"interactive", "semi_auto", "autonomous"}

\* implementation: "none" (the default handler is used), "returns" or "raises".
ClaudeCommand(name, execution_mode, implementation, parameters) ==
    [name |-> name, execution_mode |-> execution_mode,
     implementation |-> implementation, parameters |-> parameters]

ClaudeHook(name, trigger_event, handler) ==
    [name |-> name, trigger_event |-> trigger_event, handler |-> handler, enabled |-> TRUE]

SeedCommands == <<
    ClaudeCommand("analyze_task", "interactive", "none", <<
        [name |-> "description", required |-> TRUE, type |-> "string",
         values |-> <<>>],
        [name |-> "scope", required |-> FALSE, type |-> "enum",
         values |-> <<"function", "unit", "project">>],
        [name |-> "complexity", required |-> FALSE, type |-> "enum",
         values |-> <<"low", "medium", "high">>],
        [name |-> "intervention", required |-> FALSE, type |-> "enum",
         values |-> <<"low", "medium", "high">>] >>),
    ClaudeCommand("assess_challenges", "interactive", "none", <<
        [name |-> "task_name", required |-> FALSE, type |-> "string",
         values |-> <<>>],
        [name |-> "context", required |-> FALSE, type |-> "string",
         values |-> <<>>],
        [name |-> "include_solutions", required |-> FALSE, type |-> "boolean",
         values |-> <<>>] >>),
    ClaudeCommand("generate_function", "semi_auto", "none", <<
        [name |-> "spec", required |-> TRUE, type |-> "string",
         values |-> <<>>],
        [name |-> "language", required |-> FALSE, type |-> "string",
         values |-> <<>>],
        [name |-> "style", required |-> FALSE, type |-> "string",
         values |-> <<>>],
        [name |-> "test_coverage", required |-> FALSE, type |-> "number",
         values |-> <<>>],
        [name |-> "include_docs", required |-> FALSE, type |-> "boolean",
         values |-> <<>>] >>),
    ClaudeCommand("implement_feature", "interactive", "none", <<
        [name |-> "feature_spec", required |-> TRUE, type |-> "string",
         values |-> <<>>],
        [name |-> "architecture", required |-> FALSE, type |-> "string",
         values |-> <<>>],
        [name |-> "integration_tests", required |-> FALSE, type |-> "boolean",
         values |-> <<>>],
        [name |-> "update_docs", required |-> FALSE, type |-> "boolean",
         values |-> <<>>] >>),
    ClaudeCommand("refactor_code", "semi_auto", "none", <<
        [name |-> "target", required |-> TRUE, type |-> "string",
         values |-> <<>>],
        [name |-> "pattern", required |-> FALSE, type |-> "enum",
         values |-> <<"extract_method", "inline", "move", "rename", "auto">>],
        [name |-> "preserve_tests", required |-> FALSE, type |-> "boolean",
         values |-> <<>>],
        [name |-> "backup", required |-> FALSE, type |-> "boolean",
         values |-> <<>>] >>),
    ClaudeCommand("migrate_api", "interactive", "none", <<
        [name |-> "from_version", required |-> TRUE, type |-> "string",
         values |-> <<>>],
        [name |-> "to_version", required |-> TRUE, type |-> "string",
         values |-> <<>>],
        [name |-> "library", required |-> FALSE, type |-> "string",
         values |-> <<>>],
        [name |-> "dry_run", required |-> FALSE, type |-> "boolean",
         values |-> <<>>],
        [name |-> "update_tests", required |-> FALSE, type |-> "boolean",
         values |-> <<>>] >>),
    ClaudeCommand("generate_tests", "semi_auto", "none", <<
        [name |-> "target", required |-> TRUE, type |-> "string",
         values |-> <<>>],
        [name |-> "type", required |-> FALSE, type |-> "enum",
         values |-> <<"unit", "integration", "e2e", "all">>],
        [name |-> "coverage", required |-> FALSE, type |-> "number",
         values |-> <<>>],
        [name |-> "include_edge_cases", required |-> FALSE, type |-> "boolean",
         values |-> <<>>] >>),
    ClaudeCommand("verify_security", "autonomous", "none", <<
        [name |-> "scope", required |-> FALSE, type |-> "string",
         values |-> <<>>],
        [name |-> "include_dependencies", required |-> FALSE, type |-> "boolean",
         values |-> <<>>],
        [name |-> "severity_threshold", required |-> FALSE, type |-> "enum",
         values |-> <<"low", "medium", "high">>] >>),
    ClaudeCommand("document_code", "semi_auto", "none", <<
        [name |-> "scope", required |-> FALSE, type |-> "string",
         values |-> <<>>],
        [name |-> "format", required |-> FALSE, type |-> "enum",
         values |-> <<"docstring", "markdown", "rst", "auto">>],
        [name |-> "update_existing", required |-> FALSE, type |-> "boolean",
         values |-> <<>>],
        [name |-> "include_examples", required |-> FALSE, type |-> "boolean",
         values |-> <<>>] >>),
    ClaudeCommand("review_pr", "semi_auto", "none", <<
        [name |-> "pr_id", required |-> FALSE, type |-> "string",
         values |-> <<>>],
        [name |-> "focus", required |-> FALSE, type |-> "enum",
         values |-> <<"security", "performance", "style", "all">>],
        [name |-> "suggest_improvements", required |-> FALSE, type |-> "boolean",
         values |-> <<>>] >>),
    ClaudeCommand("setup_project", "interactive", "none", <<
        [name |-> "project_type", required |-> TRUE, type |-> "enum",
         values |-> <<"web", "api", "cli", "library", "ml">>],
        [name |-> "framework", required |-> FALSE, type |-> "string",
         values |-> <<>>],
        [name |-> "include_ci", required |-> FALSE, type |-> "boolean",
         values |-> <<>>],
        [name |-> "include_security", required |-> FALSE, type |-> "boolean",
         values |-> <<>>] >>),
    ClaudeCommand("configure_ci", "semi_auto", "none", <<
        [name |-> "platform", required |-> FALSE, type |-> "enum",
         values |-> <<"github", "gitlab", "jenkins", "auto">>],
        [name |-> "include_security", required |-> FALSE, type |-> "boolean",
         values |-> <<>>],
        [name |-> "optimize", required |-> FALSE, type |-> "boolean",
         values |-> <<>>] >>),
    ClaudeCommand("clarify_requirements", "interactive", "none", <<
        [name |-> "initial_spec", required |-> TRUE, type |-> "string",
         values |-> <<>>],
        [name |-> "stakeholder", required |-> FALSE, type |-> "string",
         values |-> <<>>],
        [name |-> "include_tests", required |-> FALSE, type |-> "boolean",
         values |-> <<>>] >>),
    ClaudeCommand("explain_code", "autonomous", "none", <<
        [name |-> "target", required |-> TRUE, type |-> "string",
         values |-> <<>>],
        [name |-> "audience", required |-> FALSE, type |-> "enum",
         values |-> <<"beginner", "intermediate", "expert">>],
        [name |-> "format", required |-> FALSE, type |-> "enum",
         values |-> <<"text", "diagram", "video">>] >>),
    ClaudeCommand("benchmark_performance", "autonomous", "none", <<
        [name |-> "target", required |-> FALSE, type |-> "string",
         values |-> <<>>],
        [name |-> "metrics", required |-> FALSE, type |-> "list",
         values |-> <<>>],
        [name |-> "compare_baseline", required |-> FALSE, type |-> "boolean",
         values |-> <<>>] >>) >>

SeedHooks == <<
    ClaudeHook("auto_test_on_change", "file_saved", "returns"),
    ClaudeHook("auto_format_on_save", "file_saved", "returns"),
    ClaudeHook("pre_commit_check", "pre_commit", "returns"),
    ClaudeHook("post_merge_update", "post_merge", "returns"),
    ClaudeHook("challenge_detection", "task_start", "returns"),
    ClaudeHook("solution_suggestion", "challenge_detected", "returns") >>

register_command(command) == DictPut(commands, command)

\* The hook joins the list of its trigger_event, behind the earlier ones.
register_hook(hook) == Append(hooks, hook)

\* param_name in parameters
HasParameter(parameters, param_name) ==
    \E i \in 1..Len(parameters) : parameters[i].name = param_name

\* parameters[param_name]
ParameterValue(parameters, param_name) ==
    parameters[CHOOSE i \in 1..Len(parameters) : parameters[i].name = param_name].value

\* The errors one entry of command.parameters adds.
ParameterErrors(config, parameters) ==
    (IF config.required /\ ~HasParameter(parameters, config.name)
     THEN <<[error |-> "Missing required parameter", parameter |-> config.name]>>
     ELSE <<>>)
    \o (IF /\ HasParameter(parameters, config.name)
            /\ config.type = "enum"
            /\ \A k \in 1..Len(config.values) :
                    config.values[k] # ParameterValue(parameters, config.name)
        THEN <<[error |-> "Invalid value", parameter |-> config.name]>>
        ELSE <<>>)

RECURSIVE ErrorsFrom(_, _, _)
\* The loop of _validate_parameters from entry k on.
ErrorsFrom(command, parameters, k) ==
    IF k > Len(command.parameters) THEN <<>>
    ELSE ParameterErrors(command.parameters[k], parameters)
            \o ErrorsFrom(command, parameters, k + 1)

\* Enum values are not looked at.
_validate_parameters_required_only(command, parameters) ==
    LET missing == {k \in 1..Len(command.parameters) :
                        /\ command.parameters[k].required
                        /\ ~HasParameter(parameters, command.parameters[k].name)}
        errors == [k \in 1..Len(Filter(command.parameters, missing)) |->
                    [error |-> "Missing required parameter",
                     parameter |-> Filter(command.parameters, missing)[k].name]]
    IN  [valid |-> errors = <<>>, errors |-> errors]

_validate_parameters(command, parameters) ==
    LET errors == ErrorsFrom(command, parameters, 1)
    IN  [valid |-> Len(errors) = 0, errors |-> errors]

\* The placeholder: every request is confirmed.
_get_user_confirmation(command, parameters) == TRUE

_default_command_handler(command, parameters) ==
    [command |-> command.name, status |-> "executed", message |-> parameters]

\* The handlers that run for an event, in the order of its hook list: the
\* enabled hooks registered for it.  A handler that raises is caught by
\* ClaudeHook.execute.
_trigger_hooks(event) ==
    Names(Filter(hooks, {i \in 1..Len(hooks) :
                            hooks[i].trigger_event = event /\ hooks[i].enabled}))

\* execute_command past the lookup and the validation.
execute_valid_command(command, parameters) ==
    LET interactive == command.execution_mode = "interactive"
        before == <<"_validate_parameters">>
                    \o (IF interactive THEN <<"_get_user_confirmation">> ELSE <<>>)
    IN  IF interactive /\ ~_get_user_confirmation(command, parameters)
        THEN [kind |-> "cancelled", value |-> [cancelled |-> TRUE], calls |-> before]
        ELSE IF command.implementation = "raises"
        THEN [kind |-> "error", value |-> [error |-> "exception of the handler"],
              calls |-> before \o <<"implementation">>]
        ELSE [kind |-> "ok",
              value |-> IF command.implementation = "none"
                        THEN _default_command_handler(command, parameters)
                        ELSE [command |-> command.name, status |-> "implemented",
                              parameters |-> parameters],
              calls |-> before
                        \o <<IF command.implementation = "none"
                             THEN "_default_command_handler" ELSE "implementation">>
                        \o <<"_trigger_hooks">> \o _trigger_hooks("command_executed")]

execute_command(command_name, parameters) ==
    IF command_name \notin NameSet(commands)
    THEN [kind |-> "error",
          value |-> [error |-> "Unknown command", command |-> command_name],
          calls |-> <<>>]
    ELSE LET command == commands[CHOOSE i \in 1..Len(commands) :
                                    commands[i].name = command_name]
             validation_result == _validate_parameters(command, parameters)
         IN  IF validation_result.valid = FALSE
             THEN [kind |-> "error",
                   value |-> [error |-> "Parameter validation failed",
                              errors |-> validation_result.errors],
                   calls |-> <<"_validate_parameters">>]
             ELSE execute_valid_command(command, parameters)

-----------------------------------------------------------------------------
(* Inputs of the register_* calls made after construction                   *)

NewTasks == {
    AITask("Code Review", "testing_analysis", "unit", "medium", "medium"),
    AITask("Function Completion", "code_generation", "project", "high", "high"),
    AITask("Unit Test Generation", "testing_analysis", "unit", "medium", "low") }

NewChallenges == {
    Challenge("Review Fatigue", "human_ai_collaboration", {"Code Review"},
        "critical", 10, 10, 3),
    Challenge("Flaky Signals", "evaluation_benchmarks", {"Code Review", "Release Notes"},
        "low", 5, 5, 9),
    Challenge("Human-AI Collaboration", "evaluation_benchmarks", {},
        "high", 6, 5, 3) }

NewSolutions == {
    Solution("Review Checklists", "framework_integration",
        {"Evaluation and Benchmarks", "Code Smell Detection"},
        "high", 10, 10, 6, "production"),
    Solution("Benchmark Refresh", "data_collection", {"Evaluation and Benchmarks"},
        "medium", 0, 0, 0, "deployed"),
    Solution("Specialized Codebase Adaptation", "training_methods", {},
        "low", 100, 50, 30, "research"),
    Solution("Lint Autofix", "inference_approaches", {"Library and API Version Updates"},
        "high", 10, 10, 6, "prototype") }

EvaluateNames == NameSet(tasks) \cup {"nonexistent-task"}

NewCommands == {
    ClaudeCommand("lint_fix", "autonomous", "raises", <<
        [name |-> "target", required |-> TRUE, type |-> "string", values |-> <<>>] >>),
    ClaudeCommand("summarize", "interactive", "returns", <<
        [name |-> "target", required |-> TRUE, type |-> "string", values |-> <<>>],
        [name |-> "scope", required |-> FALSE, type |-> "enum",
         values |-> <<"function", "unit">>] >>) }

NewHooks == {
    ClaudeHook("audit_log", "command_executed", "returns"),
    ClaudeHook("notify", "command_executed", "raises") }

\* The command names tried: seeded commands of the three execution modes,
\* the names of NewCommands, unknown until registered, and a name that is
\* never registered.
CommandNames == {"analyze_task", "generate_tests", "verify_security",
                 "lint_fix", "summarize", "nonexistent-command"}

\* The parameter dicts tried.
ParameterInputs == {
    <<>>,
    <<[name |-> "description", value |-> "add a login form"]>>,
    <<[name |-> "description", value |-> "add a login form"],
      [name |-> "scope", value |-> "project"]>>,
    <<[name |-> "description", value |-> "add a login form"],
      [name |-> "scope", value |-> "galaxy"]>>,
    <<[name |-> "target", value |-> "src/app.py"]>>,
    <<[name |-> "target", value |-> "src/app.py"],
      [name |-> "scope", value |-> "project"]>> }

\* Arguments of direct get_task_challenges calls: a task name that is never
\* registered nor referenced, one that is only referenced, one that may be both.
TaskQueryNames == {"nonexistent-task", "Release Notes", "Code Review"}

\* Arguments of direct get_solutions_for_challenge calls: a challenge name no
\* solution addresses, and an addressed name that is never registered.
ChallengeQueryNames == {"Review Fatigue", "Code Smell Detection"}

-----------------------------------------------------------------------------
(* State machine                                                            *)

NoResult == [op |-> "none", arg |-> "", kind |-> "none", value |-> <<>>]

Returned(op, arg, r) == [op |-> op, arg |-> arg, kind |-> r.kind, value |-> r.value]

\* The registries as created empty by the three __init__ methods, before
\* their seeding runs (module import order: framework, challenges, solutions).
Init ==
    /\ tasks = <<>>
    /\ challenges = <<>>
    /\ solutions = <<>>
    /\ commands = <<>>
    /\ hooks = <<>>
    /\ pc = "init_tasks"
    /\ regs = 0
    /\ result = NoResult
    /\ calls = <<>>

\* One register_task call of _initialize_core_tasks.
InitCoreTask ==
    /\ pc = "init_tasks"
    /\ tasks' = register_task(SeedTasks[Len(tasks) + 1])
    /\ pc' = IF Len(tasks) + 1 = Len(SeedTasks) THEN "init_challenges" ELSE pc
    /\ UNCHANGED <<commands, hooks, challenges, solutions, regs, result, calls>>

\* One register_challenge call of _initialize_core_challenges.
InitCoreChallenge ==
    /\ pc = "init_challenges"
    /\ challenges' = register_challenge(SeedChallenges[Len(challenges) + 1])
    /\ pc' = IF Len(challenges) + 1 = Len(SeedChallenges) THEN "init_relationships" ELSE pc
    /\ UNCHANGED <<commands, hooks, tasks, solutions, regs, result, calls>>

InitChallengeRelationships ==
    /\ pc = "init_relationships"
    /\ challenges' = _initialize_challenge_relationships(challenges)
    /\ pc' = "init_solutions"
    /\ UNCHANGED <<commands, hooks, tasks, solutions, regs, result, calls>>

\* One register_solution call of _initialize_core_solutions.
InitCoreSolution ==
    /\ pc = "init_solutions"
    /\ solutions' = register_solution(SeedSolutions[Len(solutions) + 1])
    /\ pc' = IF Len(solutions) + 1 = Len(SeedSolutions) THEN "init_claude" ELSE pc
    /\ UNCHANGED <<commands, hooks, tasks, challenges, regs, result, calls>>

\* ClaudeIntegration.__init__: the register_command and register_hook calls
\* of _initialize_commands and _initialize_hooks.
InitClaudeIntegration ==
    /\ pc = "init_claude"
    /\ commands' = SeedCommands
    /\ hooks' = SeedHooks
    /\ pc' = "ready"
    /\ UNCHANGED <<tasks, challenges, solutions, regs, result, calls>>

RegisterTask ==
    /\ pc = "ready" /\ regs < MaxRegs
    /\ \E task \in NewTasks : tasks' = register_task(task)
    /\ regs' = regs + 1
    /\ result' = NoResult /\ calls' = <<>>
    /\ UNCHANGED <<commands, hooks, challenges, solutions, pc>>

RegisterChallenge ==
    /\ pc = "ready" /\ regs < MaxRegs
    /\ \E challenge \in NewChallenges : challenges' = register_challenge(challenge)
    /\ regs' = regs + 1
    /\ result' = NoResult /\ calls' = <<>>
    /\ UNCHANGED <<commands, hooks, tasks, solutions, pc>>

RegisterSolution ==
    /\ pc = "ready" /\ regs < MaxRegs
    /\ \E solution \in NewSolutions : solutions' = register_solution(solution)
    /\ regs' = regs + 1
    /\ result' = NoResult /\ calls' = <<>>
    /\ UNCHANGED <<commands, hooks, tasks, challenges, pc>>

EvaluateTask ==
    /\ pc = "ready"
    /\ \E task_name \in EvaluateNames :
        /\ result' = Returned("evaluate_task", task_name, evaluate_task(task_name))
        /\ calls' = evaluate_task(task_name).calls
    /\ UNCHANGED <<commands, hooks, tasks, challenges, solutions, pc, regs>>

AnalyzeChallengeCoverage ==
    /\ pc = "ready"
    /\ result' = Returned("analyze_challenge_coverage", "", analyze_challenge_coverage)
    /\ calls' = analyze_challenge_coverage.calls
    /\ UNCHANGED <<commands, hooks, tasks, challenges, solutions, pc, regs>>

\* The Challenge Registry is left in the order of the priority ranking, as
\* an in-place sort of the registry's entries would leave it.
GetImplementationRoadmapSortingInPlace ==
    /\ pc = "ready"
    /\ result' = Returned("get_implementation_roadmap", "", get_implementation_roadmap)
    /\ calls' = get_implementation_roadmap.calls
    /\ challenges' = get_challenge_impact_ranking
    /\ UNCHANGED <<commands, hooks, tasks, solutions, pc, regs>>

GetImplementationRoadmap ==
    /\ pc = "ready"
    /\ result' = Returned("get_implementation_roadmap", "", get_implementation_roadmap)
    /\ calls' = get_implementation_roadmap.calls
    /\ UNCHANGED <<commands, hooks, tasks, challenges, solutions, pc, regs>>

BenchmarkCurrentState ==
    /\ pc = "ready"
    /\ result' = Returned("benchmark_current_state", "", benchmark_current_state)
    /\ calls' = benchmark_current_state.calls
    /\ UNCHANGED <<commands, hooks, tasks, challenges, solutions, pc, regs>>

\* A direct call of ChallengeRegistry.get_challenge_impact_ranking.
GetChallengeImpactRanking ==
    /\ pc = "ready"
    /\ result' = [op |-> "get_challenge_impact_ranking", arg |-> "", kind |-> "ok",
                  value |-> get_challenge_impact_ranking]
    /\ calls' = <<"get_challenge_impact_ranking">>
    /\ UNCHANGED <<commands, hooks, tasks, challenges, solutions, pc, regs>>

\* A direct call of SolutionRegistry.get_feasibility_ranking.
GetFeasibilityRanking ==
    /\ pc = "ready"
    /\ result' = [op |-> "get_feasibility_ranking", arg |-> "", kind |-> "ok",
                  value |-> get_feasibility_ranking]
    /\ calls' = <<"get_feasibility_ranking">>
    /\ UNCHANGED <<commands, hooks, tasks, challenges, solutions, pc, regs>>

\* A direct call of SolutionRegistry.get_implementation_roadmap.
GetSolutionRoadmap ==
    /\ pc = "ready"
    /\ result' = [op |-> "SolutionRegistry.get_implementation_roadmap", arg |-> "",
                  kind |-> "ok", value |-> solution_roadmap]
    /\ calls' = <<"get_implementation_roadmap">>
    /\ UNCHANGED <<commands, hooks, tasks, challenges, solutions, pc, regs>>

\* A direct call of ChallengeRegistry.get_task_challenges.
GetTaskChallenges ==
    /\ pc = "ready"
    /\ \E task_name \in TaskQueryNames :
        result' = [op |-> "get_task_challenges", arg |-> task_name, kind |-> "ok",
                   value |-> get_task_challenges(task_name)]
    /\ calls' = <<"get_task_challenges">>
    /\ UNCHANGED <<commands, hooks, tasks, challenges, solutions, pc, regs>>

\* A direct call of SolutionRegistry.get_solutions_for_challenge.
GetSolutionsForChallenge ==
    /\ pc = "ready"
    /\ \E challenge_name \in ChallengeQueryNames :
        result' = [op |-> "get_solutions_for_challenge", arg |-> challenge_name,
                   kind |-> "ok", value |-> get_solutions_for_challenge(challenge_name)]
    /\ calls' = <<"get_solutions_for_challenge">>
    /\ UNCHANGED <<commands, hooks, tasks, challenges, solutions, pc, regs>>

Next ==
    \/ InitCoreTask
    \/ InitCoreChallenge
    \/ InitChallengeRelationships
    \/ InitCoreSolution
    \/ InitClaudeIntegration
    \/ RegisterTask
    \/ RegisterChallenge
    \/ RegisterSolution
    \/ EvaluateTask
    \/ AnalyzeChallengeCoverage
    \/ GetImplementationRoadmap
    \/ BenchmarkCurrentState
    \/ GetChallengeImpactRanking
    \/ GetFeasibilityRanking
    \/ GetSolutionRoadmap
    \/ GetTaskChallenges
    \/ GetSolutionsForChallenge

Spec == Init /\ [][Next]_vars

-----------------------------------------------------------------------------
(* Properties                                                               *)

Ready == pc = "ready"

\* The seeded dataset: construction finished and nothing registered since.
Seeded == pc = "ready" /\ regs = 0

RECURSIVE SumOver(_, _)
\* The sum of f over the finite set S.
SumOver(S, f) ==
    IF S = {} THEN 0
    ELSE LET x == CHOOSE y \in S : TRUE IN f[x] + SumOver(S \ {x}, f)

\* The indices of the challenges whose affected_tasks contains the name.
Affecting(task_name) ==
    {i \in 1..Len(challenges) : task_name \in challenges[i].affected_tasks}

\* C1: evaluate_task of a registered name returns a result record and never
\* fails, also when the challenges of the task have addressing solutions.
C1_RegisteredTaskNeverFails ==
    (result.op = "evaluate_task" /\ result.arg \in NameSet(tasks))
        => result.kind = "ok"

C3_UnknownTaskIsStructuredError ==
    /\ [](( result.op = "evaluate_task" /\ result.arg \notin NameSet(tasks))
            => /\ result.kind = "error"
               /\ result.value = [error |-> result.arg]
               /\ calls = <<>>)
    /\ [][(result'.op = "evaluate_task" /\ result'.arg \notin NameSet(tasks))
            => UNCHANGED <<tasks, challenges, solutions>>]_vars

C3_Witness ==
    /\ result.op = "evaluate_task" /\ result.arg = "nonexistent-task"
    /\ result.kind = "error" /\ regs > 0

\* C4: a returned result record has readiness_score = max(0, A - I) with A the
\* mean of solution_readiness and I the mean of impact_score() over exactly
\* the challenges whose affected_tasks contains the name; 1.0 when there are none.
C4_ReadinessIsClampedDifferenceOfMeans ==
    (result.op = "evaluate_task" /\ result.kind = "ok")
        => LET S == Affecting(result.arg)
               n == Cardinality(S)
               sumA == SumOver(S, [i \in S |-> challenges[i].metrics.solution_readiness])
               sumI == SumOver(S, [i \in S |-> impact_score(challenges[i].metrics)])
               score == result.value.readiness_score
           IN  /\ {result.value.challenges[k] : k \in 1..Len(result.value.challenges)}
                    = {challenges[i] : i \in S}
               /\ Len(result.value.challenges) = n
               /\ score.den > 0
               /\ IF n = 0
                  THEN score.num = score.den
                  ELSE score.num * (10000 * n)
                        = Max(0, 1000 * sumA - sumI) * score.den

\* A record over two challenges whose difference of means is positive, and ...
C4_Witness ==
    /\ result.op = "evaluate_task" /\ result.kind = "ok"
    /\ Len(result.value.challenges) = 2
    /\ result.value.readiness_score.num > 0

\* ... one whose difference of means is negative, so that the clamp acts.
C4_WitnessClamped ==
    /\ result.op = "evaluate_task" /\ result.kind = "ok"
    /\ Len(result.value.challenges) = 1
    /\ avg_solution_readiness(result.value.challenges).num
            < challenge_impact(result.value.challenges).num
    /\ result.value.readiness_score.num = 0

\* The first three critical challenges, as benchmark_current_state takes them.
TopCriticalChallenges ==
    SubSeq(get_challenges_by_severity("critical"), 1,
           IF Len(get_challenges_by_severity("critical")) < TopCritical
           THEN Len(get_challenges_by_severity("critical")) ELSE TopCritical)

\* C5: for each of the top three critical challenges, the solution named by
\* "Prioritize implementation of X" has the maximum feasibility_score among
\* the solutions addressing the challenge (and more than 0.5); a challenge
\* with no addressing solution gets "Develop solutions".
C5_PrioritizedSolutionIsMostFeasible ==
    result.op = "benchmark_current_state"
        => \A k \in 1..Len(TopCriticalChallenges) :
            LET c == TopCriticalChallenges[k]
                addressing == {i \in 1..Len(solutions) :
                                c.name \in solutions[i].addressed_challenges}
                recs == result.value.recommendations
            IN  /\ addressing = {}
                    => \E r \in 1..Len(recs) :
                        recs[r].text = "Develop solutions" /\ recs[r].about = c.name
                /\ \A r \in 1..Len(recs) :
                    (recs[r].text = "Prioritize implementation" /\ recs[r].about = c.name)
                        => \E i \in addressing :
                            /\ solutions[i].name = recs[r].name
                            /\ IsFeasible(solutions[i])
                            /\ \A j \in addressing :
                                feasibility_score(solutions[j].metrics)
                                    <= feasibility_score(solutions[i].metrics)

\* C6: the Evaluator's roadmap keeps all four Solution Registry buckets: every
\* registered solution appears in immediate_actions, short_term_goals,
\* medium_term_objectives or long_term_research.
C6_RoadmapKeepsEverySolution ==
    result.op = "get_implementation_roadmap"
        => NameSet(result.value.immediate_actions)
            \cup NameSet(result.value.short_term_goals)
            \cup NameSet(result.value.medium_term_objectives)
            \cup NameSet(result.value.long_term_research)
            = NameSet(solutions)

\* C7: once the Challenge Registry is initialised, every name in the
\* related_challenges of a registered challenge is the key of a registered
\* challenge.
C7_RelatedChallengesResolve ==
    pc \in {"init_solutions", "ready"}
        => \A i \in 1..Len(challenges) :
            \A j \in 1..Len(challenges[i].related_challenges) :
                challenges[i].related_challenges[j] \in NameSet(challenges)

\* C8 as stated: the seeded Task Registry holds 9 tasks and the scope
\* distribution is function 2, unit 3, project 4.
C8_NineTasksFourProjects ==
    (Seeded /\ result.op = "benchmark_current_state")
        => /\ result.value.total_tasks = 9
           /\ result.value.distribution.scope
                = [function |-> 2, unit |-> 3, project |-> 4]

\* C8 amended: the seeded Task Registry holds 10 tasks and the scope
\* distribution is function 2, unit 3, project 5, summing to 10.
C8_TenTasksFiveProjects ==
    (Seeded /\ result.op = "benchmark_current_state")
        => /\ result.value.total_tasks = 10
           /\ result.value.distribution.scope
                = [function |-> 2, unit |-> 3, project |-> 5]
           /\ SumOver(ScopeMeasure, result.value.distribution.scope)
                = result.value.total_tasks

C8_Witness ==
    /\ Seeded /\ result.op = "benchmark_current_state"
    /\ result.value.distribution.scope["project"] = 5

\* The (solution, addressed name) pairs over all registered solutions.
AddressingPairs ==
    {p \in (1..Len(solutions)) \X UNION {solutions[i].addressed_challenges :
                                            i \in 1..Len(solutions)} :
        p[2] \in solutions[p[1]].addressed_challenges}

CoverageTotal(coverage) == SumSeq([k \in 1..Len(coverage) |-> coverage[k].count])

\* C9 as stated: the coverage counts sum to the number of (solution,
\* addressed name) pairs, also when addressed names are not registered.
C9_CoverageSumsAllPairs ==
    (Ready /\ result.op = "analyze_challenge_coverage")
        => CoverageTotal(result.value.coverage_details) = Cardinality(AddressingPairs)

\* C9 amended: the coverage counts sum to the number of (solution, addressed
\* name) pairs whose name is a registered challenge; pairs with an
\* unregistered name are not counted.
C9_CoverageSumsResolvedPairs ==
    (Ready /\ result.op = "analyze_challenge_coverage")
        => CoverageTotal(result.value.coverage_details)
            = Cardinality({p \in AddressingPairs : p[2] \in NameSet(challenges)})

\* A solution with an unregistered addressed name is registered and the
\* coverage counts sum to less than the number of pairs.
C9_Witness ==
    /\ Ready /\ result.op = "analyze_challenge_coverage"
    /\ \E p \in AddressingPairs : p[2] \notin NameSet(challenges)
    /\ CoverageTotal(result.value.coverage_details) < Cardinality(AddressingPairs)

\* C10: on the seeded dataset each of the 9 solutions addresses exactly 3
\* names, all of them registered challenges, and the coverage maps each of
\* the 9 challenges to a count >= 1, so the uncovered list is empty.
C10_SeededCoverageComplete ==
    (Seeded /\ result.op = "analyze_challenge_coverage")
        => /\ Len(solutions) = 9
           /\ \A i \in 1..Len(solutions) :
                /\ Cardinality(solutions[i].addressed_challenges) = 3
                /\ solutions[i].addressed_challenges \subseteq NameSet(challenges)
           /\ Names(result.value.coverage_details) = Names(challenges)
           /\ Len(result.value.coverage_details) = 9
           /\ \A k \in 1..Len(result.value.coverage_details) :
                result.value.coverage_details[k].count >= 1
           /\ result.value.uncovered = <<>>

C10_Witness ==
    /\ Seeded /\ result.op = "analyze_challenge_coverage"
    /\ result.value.covered_challenges = 9

\* The position of the entry of that name in a registry.
IndexOf(reg, name) == CHOOSE i \in 1..Len(reg) : reg[i].name = name

\* Two entries of the Challenge Registry have the same impact score.
ImpactTie ==
    \E i, j \in 1..Len(challenges) :
        i < j /\ impact_score(challenges[i].metrics) = impact_score(challenges[j].metrics)

\* Two entries of the Solution Registry have the same feasibility score.
FeasibilityTie ==
    \E i, j \in 1..Len(solutions) :
        i < j /\ feasibility_score(solutions[i].metrics)
                    = feasibility_score(solutions[j].metrics)

\* C11: get_challenge_impact_ranking and get_feasibility_ranking return every
\* registered entry exactly once, in non-increasing order of the score, and
\* entries of equal score in the order of their registration.
C11_RankingsStableDescending ==
    /\ result.op = "get_challenge_impact_ranking" =>
        LET ranking == result.value IN
        /\ Len(ranking) = Len(challenges)
        /\ \A i \in 1..Len(challenges) : \E k \in 1..Len(ranking) : ranking[k] = challenges[i]
        /\ \A i, j \in 1..Len(ranking) : i < j =>
            \/ impact_score(ranking[i].metrics) > impact_score(ranking[j].metrics)
            \/ /\ impact_score(ranking[i].metrics) = impact_score(ranking[j].metrics)
               /\ IndexOf(challenges, ranking[i].name) < IndexOf(challenges, ranking[j].name)
    /\ result.op = "get_feasibility_ranking" =>
        LET ranking == result.value IN
        /\ Len(ranking) = Len(solutions)
        /\ \A i \in 1..Len(solutions) : \E k \in 1..Len(ranking) : ranking[k] = solutions[i]
        /\ \A i, j \in 1..Len(ranking) : i < j =>
            \/ feasibility_score(ranking[i].metrics) > feasibility_score(ranking[j].metrics)
            \/ /\ feasibility_score(ranking[i].metrics) = feasibility_score(ranking[j].metrics)
               /\ IndexOf(solutions, ranking[i].name) < IndexOf(solutions, ranking[j].name)

\* A feasibility ranking over solutions of equal score, taken while two
\* challenges have an equal impact score as well.
C11_Witness ==
    /\ result.op = "get_feasibility_ranking"
    /\ FeasibilityTie /\ ImpactTie

-----------------------------------------------------------------------------
(* ChallengeMetrics.impact_score on its own: a ChallengeMetrics object is    *)
(* constructed, impact_score() is called on it, and is called again on a    *)
(* copy whose solution_readiness is higher.                                 *)

\* The values of a float field in [0, 1], in tenths.
UnitTenths == 0..10

ChallengeMetricsInputs ==
    [severity : SeverityLevel, frequency : UnitTenths,
     task_coverage : UnitTenths, solution_readiness : UnitTenths]

InitImpact ==
    /\ tasks = <<>> /\ challenges = <<>> /\ solutions = <<>>
    /\ commands = <<>> /\ hooks = <<>>
    /\ pc = "impact_score" /\ regs = 0 /\ calls = <<>>
    /\ \E m \in ChallengeMetricsInputs :
        result = [op |-> "ChallengeMetrics", arg |-> "", kind |-> "input", value |-> m]

ImpactScore ==
    /\ pc = "impact_score" /\ result.op = "ChallengeMetrics"
    /\ result' = [op |-> "impact_score", arg |-> "", kind |-> "ok",
                  value |-> [metrics |-> result.value, score |-> impact_score(result.value)]]
    /\ UNCHANGED <<commands, hooks, tasks, challenges, solutions, pc, regs, calls>>

ImpactScoreWithReadinessRaised ==
    /\ pc = "impact_score" /\ result.op = "impact_score"
    /\ \E readiness \in UnitTenths :
        /\ readiness > result.value.metrics.solution_readiness
        /\ LET m == [result.value.metrics EXCEPT !.solution_readiness = readiness]
           IN  result' = [result EXCEPT !.value = [metrics |-> m, score |-> impact_score(m)]]
    /\ UNCHANGED <<commands, hooks, tasks, challenges, solutions, pc, regs, calls>>

NextImpact == ImpactScore \/ ImpactScoreWithReadinessRaised

SpecImpact == InitImpact /\ [][NextImpact]_vars

\* C12: with frequency, task_coverage and solution_readiness in [0, 1] the
\* impact score lies in [0, 1] (0..10000 in 1/10000), and a call on metrics
\* that differ only by a higher solution_readiness never returns more.
C12_ImpactScoreBoundedAndAntitone ==
    /\ [](result.op = "impact_score"
            => /\ result.value.score >= 0
               /\ result.value.score <= 10000)
    /\ [][(result.op = "impact_score" /\ result'.op = "impact_score"
            /\ result'.value.metrics.solution_readiness
                    >= result.value.metrics.solution_readiness)
            => result'.value.score <= result.value.score]_vars

\* The score of fully ready metrics is 0 where it was positive before.
C12_Witness ==
    /\ result.op = "impact_score"
    /\ result.value.metrics.solution_readiness = 10
    /\ result.value.metrics.frequency = 10
    /\ result.value.metrics.task_coverage = 10
    /\ result.value.score = 0

-----------------------------------------------------------------------------
(* SolutionMetrics.feasibility_score on its own: a SolutionMetrics object   *)
(* is constructed and feasibility_score() is called on it.                  *)

\* Largest time_to_deployment tried, in months (24 is where 1 - t/24 is 0).
MaxMonths == 30

\* The values of a float field in [0, 1], in hundredths, every tenth of them.
UnitHundredths == {10 * k : k \in 0..10}

SolutionMetricsInputs ==
    [effectiveness : EffectivenessLevel, implementation_difficulty : UnitHundredths,
     resource_requirements : UnitHundredths, time_to_deployment : 0..MaxMonths]

InitFeasibility ==
    /\ tasks = <<>> /\ challenges = <<>> /\ solutions = <<>>
    /\ commands = <<>> /\ hooks = <<>>
    /\ pc = "feasibility_score" /\ regs = 0 /\ calls = <<>>
    /\ \E m \in SolutionMetricsInputs :
        result = [op |-> "SolutionMetrics", arg |-> "", kind |-> "input", value |-> m]

FeasibilityScore ==
    /\ pc = "feasibility_score" /\ result.op = "SolutionMetrics"
    /\ result' = [op |-> "feasibility_score", arg |-> "", kind |-> "ok",
                  value |-> [metrics |-> result.value,
                             score |-> feasibility_score(result.value)]]
    /\ UNCHANGED <<commands, hooks, tasks, challenges, solutions, pc, regs, calls>>

NextFeasibility == FeasibilityScore

SpecFeasibility == InitFeasibility /\ [][NextFeasibility]_vars

\* C13: with implementation_difficulty and resource_requirements in [0, 1]
\* and any time_to_deployment >= 0, beyond 24 months too, the feasibility
\* score is never negative, and it is 0 whenever implementation_difficulty
\* is 1 or resource_requirements is 1.
C13_FeasibilityScoreNonNegative ==
    result.op = "feasibility_score" =>
        /\ result.value.score >= 0
        /\ (\/ result.value.metrics.implementation_difficulty = 100
            \/ result.value.metrics.resource_requirements = 100)
                => result.value.score = 0

\* A positive score beyond 24 months.
C13_Witness ==
    /\ result.op = "feasibility_score"
    /\ result.value.metrics.time_to_deployment > 24
    /\ result.value.metrics.implementation_difficulty < 100
    /\ result.value.metrics.resource_requirements < 100
    /\ result.value.score > 0

\* The names in the bucket of a timeline of a returned registry roadmap.
BucketNames(roadmap, timeline) ==
    LET k == CHOOSE j \in 1..Len(roadmap) : roadmap[j].timeline = timeline
    IN  Names(roadmap[k].solutions)

\* C14: SolutionRegistry.get_implementation_roadmap returns exactly the four
\* fixed keys; every registered solution is in exactly one bucket, the one
\* of the first threshold its time_to_deployment meets (<= 6, <= 12, <= 18,
\* else Research), so 6, 12 and 18 fall into the earlier bucket; the bucket
\* lengths add up to the number of solutions.
C14_RoadmapPartitionsByThreshold ==
    result.op = "SolutionRegistry.get_implementation_roadmap" =>
        LET roadmap == result.value
            In(s, timeline) ==
                \E j \in 1..Len(BucketNames(roadmap, timeline)) :
                    BucketNames(roadmap, timeline)[j] = s.name
            time(s) == s.metrics.time_to_deployment
        IN  /\ [k \in 1..Len(roadmap) |-> roadmap[k].timeline]
                    = <<"Short-term (0-6 months)", "Medium-term (6-12 months)",
                        "Long-term (12-18 months)", "Research (18+ months)">>
            /\ \A i \in 1..Len(solutions) :
                LET s == solutions[i] IN
                /\ In(s, "Short-term (0-6 months)") <=> time(s) <= 6
                /\ In(s, "Medium-term (6-12 months)") <=> (time(s) > 6 /\ time(s) <= 12)
                /\ In(s, "Long-term (12-18 months)") <=> (time(s) > 12 /\ time(s) <= 18)
                /\ In(s, "Research (18+ months)") <=> time(s) > 18
            /\ SumSeq([k \in 1..Len(roadmap) |-> Len(roadmap[k].solutions)])
                    = Len(solutions)

\* A roadmap over solutions at each of the boundaries 6, 12 and 18 months
\* and one beyond.
C14_Witness ==
    /\ result.op = "SolutionRegistry.get_implementation_roadmap"
    /\ \A t \in {6, 12, 18, 30} :
        \E i \in 1..Len(solutions) : solutions[i].metrics.time_to_deployment = t

\* The elements of a sequence.
Range(s) == {s[i] : i \in 1..Len(s)}

ChallengeCategories == {challenges[i].category : i \in 1..Len(challenges)}

\* C15: register_challenge of a name that is already a key replaces the
\* entry as a whole: the number of entries stays, the name is held by the
\* new record alone, the queries by category, severity and task return that
\* record where its own fields match and nowhere else, and its
\* related_challenges is its own (empty) list, not the replaced wired one.
C15_ReRegistrationReplacesEntry ==
    [][\A c \in NewChallenges :
        (/\ pc = "ready" /\ c.name \in NameSet(challenges)
         /\ \E i \in 1..Len(challenges) :
                /\ challenges[i].name = c.name
                /\ challenges[i] \notin Range(challenges'))
        => /\ Len(challenges') = Len(challenges)
           /\ \A i \in 1..Len(challenges') :
                challenges'[i].name = c.name => challenges'[i] = c
           /\ \A i \in 1..Len(challenges') :
                challenges'[i].name = c.name => challenges'[i].related_challenges = <<>>
           /\ \A category \in ChallengeCategories :
                \A r \in Range(get_challenges_by_category(category)') :
                    r.name = c.name => (r = c /\ category = c.category)
           /\ \A severity \in SeverityLevel :
                \A r \in Range(get_challenges_by_severity(severity)') :
                    r.name = c.name => (r = c /\ severity = c.metrics.severity)
           /\ \A task_name \in NameSet(tasks) \cup {"Code Review"} :
                \A r \in Range(get_task_challenges(task_name)') :
                    r.name = c.name => (r = c /\ task_name \in c.affected_tasks)
           /\ c \in Range(get_challenges_by_category(c.category)')
           /\ c \in Range(get_challenges_by_severity(c.metrics.severity)')
      ]_vars

\* "Human-AI Collaboration", seeded as critical and wired to two related
\* names, has been registered again as a record of severity high.
C15_Witness ==
    /\ pc = "ready"
    /\ \E i \in 1..Len(challenges) :
        /\ challenges[i].name = "Human-AI Collaboration"
        /\ challenges[i].metrics.severity = "high"
        /\ challenges[i].related_challenges = <<>>
    /\ \E i \in 1..Len(challenges) :
        /\ challenges[i].name = "Evaluation and Benchmarks"
        /\ challenges[i].related_challenges # <<>>

EvaluatorOperations == {"evaluate_task", "analyze_challenge_coverage",
                        "get_implementation_roadmap", "benchmark_current_state"}

\* C16: no Evaluator operation, whatever it returns and in whatever order and
\* number the operations run, changes the key set, the order or a field of
\* an entry of the Task, Challenge or Solution registry.
C16_EvaluatorLeavesRegistriesUnchanged ==
    [][(pc = "ready" /\ regs' = regs /\ result'.op \in EvaluatorOperations)
        => UNCHANGED <<tasks, challenges, solutions>>]_vars

\* An Evaluator operation has returned on registries that each hold an
\* entry registered after construction.
C16_Witness ==
    /\ result.op \in EvaluatorOperations
    /\ Len(tasks) > Len(SeedTasks)
    /\ Len(challenges) > Len(SeedChallenges)
    /\ Len(solutions) > Len(SeedSolutions)

\* C17: get_task_distribution maps each of scope, complexity, intervention
\* and category to a mapping whose keys are exactly the values of that
\* enumeration; every count is the number (>= 0) of tasks with that value,
\* so a value that no registered task uses is present with count 0.
C17_DistributionKeysAreEnumValues ==
    result.op = "benchmark_current_state" =>
        LET distribution == result.value.distribution
        IN  /\ DOMAIN distribution = {"scope", "complexity", "intervention", "category"}
            /\ DOMAIN distribution.scope = ScopeMeasure
            /\ DOMAIN distribution.complexity = LogicalComplexity
            /\ DOMAIN distribution.intervention = HumanIntervention
            /\ DOMAIN distribution.category = TaskCategory
            /\ \A v \in ScopeMeasure :
                /\ distribution.scope[v] >= 0
                /\ (\A i \in 1..Len(tasks) : tasks[i].metrics.scope # v)
                        => distribution.scope[v] = 0
            /\ \A v \in LogicalComplexity :
                /\ distribution.complexity[v] >= 0
                /\ (\A i \in 1..Len(tasks) : tasks[i].metrics.complexity # v)
                        => distribution.complexity[v] = 0
            /\ \A v \in HumanIntervention :
                /\ distribution.intervention[v] >= 0
                /\ (\A i \in 1..Len(tasks) : tasks[i].metrics.intervention # v)
                        => distribution.intervention[v] = 0
            /\ \A v \in TaskCategory :
                /\ distribution.category[v] >= 0
                /\ (\A i \in 1..Len(tasks) : tasks[i].category # v)
                        => distribution.category[v] = 0

\* Both function-scope tasks have been registered again with another scope:
\* the value "function" is used by no task and is reported with count 0.
C17_Witness ==
    /\ result.op = "benchmark_current_state"
    /\ \A i \in 1..Len(tasks) : tasks[i].metrics.scope # "function"
    /\ result.value.distribution.scope["function"] = 0

\* The number of registered solutions that address the challenge name.
SolutionCount(challenge_name) ==
    Cardinality({i \in 1..Len(solutions) :
                    challenge_name \in solutions[i].addressed_challenges})

\* C18: analyze_challenge_coverage lists as uncovered exactly the challenge
\* names with no addressing solution and as under_addressed exactly those
\* with one; the lists are disjoint; the recommendations hold exactly one
\* entry per listed name, "URGENT" for count 0 and "Diversify" for count 1,
\* and none for a challenge with two or more solutions.
C18_CoverageGapsAndRecommendations ==
    result.op = "analyze_challenge_coverage" =>
        LET uncovered == result.value.uncovered
            under_addressed == result.value.under_addressed
            recommendations == result.value.recommendations
            About(name) == {i \in 1..Len(recommendations) :
                               recommendations[i].challenge = name}
        IN  /\ Range(uncovered) = {n \in NameSet(challenges) : SolutionCount(n) = 0}
            /\ Range(under_addressed) = {n \in NameSet(challenges) : SolutionCount(n) = 1}
            /\ Cardinality(Range(uncovered)) = Len(uncovered)
            /\ Cardinality(Range(under_addressed)) = Len(under_addressed)
            /\ Range(uncovered) \cap Range(under_addressed) = {}
            /\ Len(recommendations) = Len(uncovered) + Len(under_addressed)
            /\ \A n \in Range(uncovered) :
                /\ Cardinality(About(n)) = 1
                /\ \A i \in About(n) : recommendations[i].text = "URGENT"
            /\ \A n \in Range(under_addressed) :
                /\ Cardinality(About(n)) = 1
                /\ \A i \in About(n) : recommendations[i].text = "Diversify"
            /\ \A n \in NameSet(challenges) : SolutionCount(n) >= 2 => About(n) = {}

\* A report over challenges with no, with one and with exactly two solutions.
C18_Witness ==
    /\ result.op = "analyze_challenge_coverage"
    /\ \A k \in {0, 1, 2} : \E n \in NameSet(challenges) : SolutionCount(n) = k
    /\ result.value.uncovered # <<>>
    /\ result.value.under_addressed # <<>>

-----------------------------------------------------------------------------
(* The readiness summary of benchmark_current_state on its own: a mapping   *)
(* as assess_system_readiness returns it is averaged and graded.            *)

\* Largest number of categories in a readiness mapping tried.
MaxCategories == 2

\* One value of the mapping: the mean of one or two solution_readiness
\* values in tenths, kept as their sum and their number.
CategoryMeans ==
    {m \in [total : 0..20, count : 1..2] : m.total <= 10 * m.count}

CategoryKeys == <<"evaluation_benchmarks", "effective_tool_usage", "human_ai_collaboration">>

ReadinessMappings ==
    UNION {{[k \in 1..n |-> [category |-> CategoryKeys[k],
                              total |-> means[k].total, count |-> means[k].count]] :
                means \in [1..n -> CategoryMeans]} : n \in 0..MaxCategories}

InitGrade ==
    /\ tasks = <<>> /\ challenges = <<>> /\ solutions = <<>>
    /\ commands = <<>> /\ hooks = <<>>
    /\ pc = "overall_readiness" /\ regs = 0 /\ calls = <<>>
    /\ \E readiness \in ReadinessMappings :
        result = [op |-> "assess_system_readiness", arg |-> "", kind |-> "input",
                  value |-> readiness]

\* Lines 184 and 201 of benchmark_current_state.
GradeOverallReadiness ==
    /\ pc = "overall_readiness" /\ result.op = "assess_system_readiness"
    /\ result' = [op |-> "overall_readiness", arg |-> "", kind |-> "ok",
                  value |-> [solution_readiness |-> result.value,
                             overall_readiness |-> overall_readiness(result.value),
                             readiness_grade |->
                                _grade_readiness(overall_readiness(result.value))]]
    /\ UNCHANGED <<commands, hooks, tasks, challenges, solutions, pc, regs, calls>>

NextGrade == GradeOverallReadiness

SpecGrade == InitGrade /\ [][NextGrade]_vars

RECURSIVE SumOfMeans(_)
\* The sum of the values total / (10 * count) of a readiness mapping, as a
\* fraction built by adding one value after the other.
SumOfMeans(readiness) ==
    IF readiness = <<>> THEN [num |-> 0, den |-> 1]
    ELSE LET rest == SumOfMeans(Tail(readiness))
             mean == [num |-> Head(readiness).total, den |-> 10 * Head(readiness).count]
         IN  [num |-> mean.num * rest.den + rest.num * mean.den,
              den |-> mean.den * rest.den]

\* C19: overall_readiness is the arithmetic mean of the per-category means
\* of the readiness mapping (0 when the mapping is empty), and its grade is
\* A iff it is >= 0.9, B iff in [0.8, 0.9), C iff in [0.7, 0.8), D iff in
\* [0.6, 0.7) and F iff below 0.6.
C19_OverallReadinessMeanAndGrade ==
    result.op = "overall_readiness" =>
        LET readiness == result.value.solution_readiness
            overall == result.value.overall_readiness
            grade == result.value.readiness_grade
            sum == SumOfMeans(readiness)
            AtLeast(tenths) == 10 * overall.num >= tenths * overall.den
        IN  /\ overall.den > 0
            /\ readiness = <<>> => overall.num = 0
            /\ readiness # <<>> =>
                    overall.num * sum.den * Len(readiness) = sum.num * overall.den
            /\ grade = "A (Excellent)" <=> AtLeast(9)
            /\ grade = "B (Good)" <=> (AtLeast(8) /\ ~AtLeast(9))
            /\ grade = "C (Fair)" <=> (AtLeast(7) /\ ~AtLeast(8))
            /\ grade = "D (Poor)" <=> (AtLeast(6) /\ ~AtLeast(7))
            /\ grade = "F (Critical)" <=> ~AtLeast(6)

\* An overall readiness of exactly 0.8, graded B, over two categories whose
\* means differ and are taken over different numbers of challenges.
C19_Witness ==
    /\ result.op = "overall_readiness"
    /\ Len(result.value.solution_readiness) = 2
    /\ result.value.solution_readiness[1].count # result.value.solution_readiness[2].count
    /\ result.value.solution_readiness[1].total * result.value.solution_readiness[2].count
            # result.value.solution_readiness[2].total * result.value.solution_readiness[1].count
    /\ 10 * result.value.overall_readiness.num = 8 * result.value.overall_readiness.den
    /\ result.value.readiness_grade = "B (Good)"

\* The indices of the registered challenges of a category.
OfCategory(category) == {i \in 1..Len(challenges) : challenges[i].category = category}

\* C20: the keys of assess_system_readiness are exactly the categories that
\* occur among the registered challenges, each once; the value of a key is
\* the sum of the solution_readiness of the challenges of that category
\* divided by their number, which is at least 1; a category without a
\* registered challenge is no key.
C20_ReadinessPerOccurringCategory ==
    result.op = "benchmark_current_state" =>
        LET readiness == result.value.solution_readiness
            keys == {readiness[k].category : k \in 1..Len(readiness)}
        IN  /\ keys = ChallengeCategories
            /\ Cardinality(keys) = Len(readiness)
            /\ \A k \in 1..Len(readiness) :
                /\ readiness[k].count >= 1
                /\ readiness[k].count = Cardinality(OfCategory(readiness[k].category))
                /\ readiness[k].total * Cardinality(OfCategory(readiness[k].category))
                    = readiness[k].count
                        * SumOver(OfCategory(readiness[k].category),
                                  [i \in 1..Len(challenges) |->
                                      challenges[i].metrics.solution_readiness])

\* A benchmark on a registry in which no challenge has the category
\* human_ai_collaboration any more and evaluation_benchmarks has challenges
\* of different solution_readiness.
C20_Witness ==
    /\ result.op = "benchmark_current_state"
    /\ "human_ai_collaboration" \notin ChallengeCategories
    /\ \E i, j \in OfCategory("evaluation_benchmarks") :
        challenges[i].metrics.solution_readiness # challenges[j].metrics.solution_readiness

\* C21: the registries accept a record whose affected_tasks or
\* addressed_challenges name entries that are not registered, and store it;
\* get_task_challenges and get_solutions_for_challenge of a name that no
\* stored entry references return the empty list.
C21_DanglingReferencesTolerated ==
    /\ \A c \in NewChallenges : c \in Range(register_challenge(c))
    /\ \A s \in NewSolutions : s \in Range(register_solution(s))
    /\ \A t \in NewTasks : t \in Range(register_task(t))
    /\ (result.op = "get_task_challenges"
         /\ \A i \in 1..Len(challenges) : result.arg \notin challenges[i].affected_tasks)
            => (result.kind = "ok" /\ result.value = <<>>)
    /\ (result.op = "get_solutions_for_challenge"
         /\ \A i \in 1..Len(solutions) : result.arg \notin solutions[i].addressed_challenges)
            => (result.kind = "ok" /\ result.value = <<>>)

\* The empty answer for a registered challenge that no solution addresses,
\* while a challenge affecting an unregistered task and a solution
\* addressing an unregistered challenge, both registered after
\* construction, are stored.
C21_Witness ==
    /\ result.op = "get_solutions_for_challenge" /\ result.arg = "Review Fatigue"
    /\ result.value = <<>>
    /\ "Review Fatigue" \in NameSet(challenges)
    /\ "Code Review" \notin NameSet(tasks)
    /\ \E i \in 1..Len(solutions) :
        /\ solutions[i].name = "Review Checklists"
        /\ "Code Smell Detection" \in solutions[i].addressed_challenges
        /\ "Code Smell Detection" \notin NameSet(challenges)

\* C22: quick_wins of the Evaluator's roadmap holds exactly the registered
\* solutions with time_to_deployment <= 6 and effectiveness high, each once
\* and in registration order; a solution meeting one condition only is left out.
C22_QuickWinsAreFastAndHigh ==
    result.op = "get_implementation_roadmap" =>
        result.value.quick_wins
            = Filter(solutions,
                {i \in 1..Len(solutions) :
                    /\ solutions[i].metrics.time_to_deployment <= 6
                    /\ solutions[i].metrics.effectiveness = "high"})

\* Two quick wins, next to a solution that is fast but not of high
\* effectiveness and to solutions of high effectiveness that are not fast.
C22_Witness ==
    /\ result.op = "get_implementation_roadmap"
    /\ Len(result.value.quick_wins) = 2
    /\ \E i \in 1..Len(solutions) :
        /\ solutions[i].metrics.time_to_deployment <= 6
        /\ solutions[i].metrics.effectiveness # "high"
    /\ \E i \in 1..Len(solutions) :
        /\ solutions[i].metrics.time_to_deployment > 6
        /\ solutions[i].metrics.effectiveness = "high"

-----------------------------------------------------------------------------
(* FrameworkEvaluator._get_task_recommendation on its own: the function is  *)
(* called with a readiness score; its other arguments are not read.         *)

\* The readiness scores 0.00, 0.01, ..., 1.00.
ReadinessScores == {[num |-> n, den |-> 100] : n \in 0..100}

InitRecommendation ==
    /\ tasks = <<>> /\ challenges = <<>> /\ solutions = <<>>
    /\ commands = <<>> /\ hooks = <<>>
    /\ pc = "_get_task_recommendation" /\ regs = 0 /\ calls = <<>>
    /\ \E score \in ReadinessScores :
        result = [op |-> "readiness_score", arg |-> "", kind |-> "input", value |-> score]

GetTaskRecommendation ==
    /\ pc = "_get_task_recommendation" /\ result.op = "readiness_score"
    /\ result' = [op |-> "_get_task_recommendation", arg |-> "", kind |-> "ok",
                  value |-> [readiness_score |-> result.value,
                             recommendation |-> _get_task_recommendation(result.value)]]
    /\ UNCHANGED <<commands, hooks, tasks, challenges, solutions, pc, regs, calls>>

NextRecommendation == GetTaskRecommendation

SpecRecommendation == InitRecommendation /\ [][NextRecommendation]_vars

\* C23: the recommendation is HIGH CONFIDENCE iff the score is > 0.8, MEDIUM
\* CONFIDENCE iff it is in (0.6, 0.8], LOW CONFIDENCE iff in (0.4, 0.6] and
\* RESEARCH NEEDED iff <= 0.4: one tier for every score, and a score equal to
\* a threshold is in the lower tier.
C23_RecommendationTiers ==
    result.op = "_get_task_recommendation" =>
        LET score == result.value.readiness_score
            recommendation == result.value.recommendation
            Above(tenths) == 10 * score.num > tenths * score.den
        IN  /\ recommendation = "HIGH CONFIDENCE" <=> Above(8)
            /\ recommendation = "MEDIUM CONFIDENCE" <=> (Above(6) /\ ~Above(8))
            /\ recommendation = "LOW CONFIDENCE" <=> (Above(4) /\ ~Above(6))
            /\ recommendation = "RESEARCH NEEDED" <=> ~Above(4)

\* The score 0.8 itself gets MEDIUM CONFIDENCE.
C23_Witness ==
    /\ result.op = "_get_task_recommendation"
    /\ 10 * result.value.readiness_score.num = 8 * result.value.readiness_score.den
    /\ result.value.recommendation = "MEDIUM CONFIDENCE"

\* The lists the relationship table holds for a name (one, or none).
TableLists(name) ==
    {relationships[k].related : k \in {j \in 1..Len(relationships) :
                                            relationships[j].name = name}}

\* Every registered challenge whose name is a key of the table has the
\* table's list, every other one the empty list.
Wired ==
    \A i \in 1..Len(challenges) :
        IF TableLists(challenges[i].name) # {}
        THEN challenges[i].related_challenges \in TableLists(challenges[i].name)
        ELSE challenges[i].related_challenges = <<>>

\* C24: during construction of the Challenge Registry the relationships are
\* wired in one step, taken after all nine register_challenge calls and never
\* again; the step changes no field but related_challenges, gives every
\* challenge named by a table key the table's list, leaves the others empty
\* and skips the table keys that name no registered challenge.
C24_WiringOnceAfterRegistration ==
    /\ [](pc \in {"init_tasks", "init_challenges", "init_relationships"}
            => \A i \in 1..Len(challenges) : challenges[i].related_challenges = <<>>)
    /\ [](pc = "init_relationships" => Len(challenges) = 9)
    /\ [](pc = "init_solutions" => (Len(challenges) = 9 /\ Wired))
    /\ [][(pc # "ready" /\ \E i \in 1..Len(challenges) :
                                challenges[i] \notin Range(challenges'))
            => /\ pc = "init_relationships" /\ pc' = "init_solutions"
               /\ Len(challenges') = Len(challenges)
               /\ \A i \in 1..Len(challenges) :
                    [challenges'[i] EXCEPT !.related_challenges = <<>>] = challenges[i]
               /\ Wired']_vars
    /\ [][(pc # "ready" /\ pc # "init_relationships")
            => \A i \in 1..Len(challenges) : challenges'[i] = challenges[i]]_vars

\* The registry right after the wiring step: "Evaluation and Benchmarks"
\* has its list, with a name that is not registered in it, and "Semantic
\* Understanding of Codebases", which is no key of the table, has none.
C24_Witness ==
    /\ pc = "init_solutions" /\ solutions = <<>>
    /\ \E i \in 1..Len(challenges) :
        /\ challenges[i].name = "Evaluation and Benchmarks"
        /\ challenges[i].related_challenges
                = <<"Human-AI Collaboration", "Semantic Understanding">>
    /\ \E i \in 1..Len(challenges) :
        /\ challenges[i].name = "Semantic Understanding of Codebases"
        /\ challenges[i].related_challenges = <<>>
    /\ "Semantic Understanding" \notin NameSet(challenges)

\* C25: a solution whose time_to_deployment is 24 months has the
\* feasibility score 0.
C25_ZeroFeasibilityAtTwentyFourMonths ==
    (result.op = "feasibility_score" /\ result.value.metrics.time_to_deployment = 24)
        => result.value.score = 0

-----------------------------------------------------------------------------
(* ClaudeIntegration in use: commands and hooks are registered and commands *)
(* are executed, starting from the constructed module singletons.           *)

InitClaude ==
    /\ tasks = SeedTasks
    /\ challenges = _initialize_challenge_relationships(SeedChallenges)
    /\ solutions = SeedSolutions
    /\ commands = SeedCommands
    /\ hooks = SeedHooks
    /\ pc = "ready" /\ regs = 0
    /\ result = NoResult /\ calls = <<>>

RegisterCommand ==
    /\ pc = "ready" /\ regs < MaxRegs
    /\ \E command \in NewCommands : commands' = register_command(command)
    /\ regs' = regs + 1
    /\ result' = NoResult /\ calls' = <<>>
    /\ UNCHANGED <<tasks, challenges, solutions, hooks, pc>>

RegisterHook ==
    /\ pc = "ready" /\ regs < MaxRegs
    /\ \E hook \in NewHooks : hooks' = register_hook(hook)
    /\ regs' = regs + 1
    /\ result' = NoResult /\ calls' = <<>>
    /\ UNCHANGED <<tasks, challenges, solutions, commands, pc>>

ExecuteCommand ==
    /\ pc = "ready"
    /\ \E command_name \in CommandNames, parameters \in ParameterInputs :
        /\ result' = [op |-> "execute_command",
                      arg |-> [command_name |-> command_name, parameters |-> parameters],
                      kind |-> execute_command(command_name, parameters).kind,
                      value |-> execute_command(command_name, parameters).value]
        /\ calls' = execute_command(command_name, parameters).calls
    /\ UNCHANGED <<tasks, challenges, solutions, commands, hooks, pc, regs>>

NextClaude == RegisterCommand \/ RegisterHook \/ ExecuteCommand

SpecClaude == InitClaude /\ [][NextClaude]_vars

\* The command registered under a name.
CommandNamed(command_name) ==
    commands[CHOOSE i \in 1..Len(commands) : commands[i].name = command_name]

\* A required parameter is missing, or an enum-typed parameter is given a
\* value outside its declared values.
Rejected(command, parameters) ==
    \E k \in 1..Len(command.parameters) :
        LET config == command.parameters[k]
            given == {i \in 1..Len(parameters) : parameters[i].name = config.name}
        IN  \/ config.required /\ given = {}
            \/ /\ config.type = "enum"
               /\ \E i \in given : parameters[i].value \notin Range(config.values)

\* The steps that run a handler or a hook.
HandlerOrHookSteps ==
    {"_default_command_handler", "implementation", "_trigger_hooks"} \cup NameSet(hooks)

\* C26: execute_command never raises.  For an unknown command name, a missing
\* required parameter or an enum parameter with an undeclared value it
\* returns an error record and neither the handler nor any hook runs.
\* Otherwise the steps are validation, confirmation (interactive mode only),
\* handler, then the "command_executed" hooks in the order of their
\* registration; a handler that raises gives an error record and no hook
\* is triggered.
C26_ExecuteCommandOrderAndErrors ==
    result.op = "execute_command" =>
        LET command_name == result.arg.command_name
            parameters == result.arg.parameters
            command == CommandNamed(command_name)
            validated == <<"_validate_parameters">>
                \o (IF command.execution_mode = "interactive"
                    THEN <<"_get_user_confirmation">> ELSE <<>>)
        IN  /\ result.kind \in {"ok", "error"}
            /\ IF command_name \notin NameSet(commands)
               THEN /\ result.kind = "error"
                    /\ Range(calls) \cap HandlerOrHookSteps = {}
               ELSE IF Rejected(command, parameters)
               THEN /\ result.kind = "error"
                    /\ Range(calls) \cap HandlerOrHookSteps = {}
               ELSE IF command.implementation = "raises"
               THEN /\ result.kind = "error"
                    /\ calls = validated \o <<"implementation">>
               ELSE /\ result.kind = "ok"
                    /\ calls = validated
                        \o <<IF command.implementation = "none"
                             THEN "_default_command_handler" ELSE "implementation">>
                        \o <<"_trigger_hooks">>
                        \o Names(Filter(hooks, {i \in 1..Len(hooks) :
                                hooks[i].trigger_event = "command_executed"}))

\* An interactive command with an implementation of its own has run to the
\* end with two "command_executed" hooks registered, the raising one first.
C26_Witness ==
    /\ result.op = "execute_command"
    /\ result.kind = "ok"
    /\ calls = <<"_validate_parameters", "_get_user_confirmation", "implementation",
                 "_trigger_hooks", "notify", "audit_log">>

-----------------------------------------------------------------------------
(* The readiness score of evaluate_task on its own: get_task_challenges has *)
(* returned a list of challenges and the score is computed from it.         *)

MaxChallenges == 2

\* Metrics of the challenges of a task; the values above 10 tenths lie
\* outside [0, 1], which nothing in ChallengeMetrics rules out.
TaskChallengeMetrics ==
    [severity : {"low", "critical"}, frequency : {10, 12},
     task_coverage : {5, 10}, solution_readiness : {0, 5, 10, 12}]

\* The lists get_task_challenges may return, up to MaxChallenges entries.
TaskChallengeLists ==
    UNION {[1..n -> {[metrics |-> m] : m \in TaskChallengeMetrics}] : n \in 0..MaxChallenges}

InitReadiness ==
    /\ tasks = <<>> /\ challenges = <<>> /\ solutions = <<>>
    /\ commands = <<>> /\ hooks = <<>>
    /\ pc = "readiness_score" /\ regs = 0 /\ calls = <<>>
    /\ \E task_challenges \in TaskChallengeLists :
        result = [op |-> "get_task_challenges", arg |-> "", kind |-> "input",
                  value |-> task_challenges]

ReadinessScore ==
    /\ pc = "readiness_score" /\ result.op = "get_task_challenges"
    /\ result' = [op |-> "readiness_score", arg |-> "", kind |-> "ok",
                  value |-> [task_challenges |-> result.value,
                             readiness_score |-> readiness_score(result.value)]]
    /\ UNCHANGED <<commands, hooks, tasks, challenges, solutions, pc, regs, calls>>

NextReadiness == ReadinessScore

SpecReadiness == InitReadiness /\ [][NextReadiness]_vars

\* frequency, task_coverage and solution_readiness lie in [0, 1].
MetricsInUnitRange(m) ==
    /\ 0 <= m.frequency /\ m.frequency <= 10
    /\ 0 <= m.task_coverage /\ m.task_coverage <= 10
    /\ 0 <= m.solution_readiness /\ m.solution_readiness <= 10

\* C27: when every challenge of the task has frequency, task_coverage and
\* solution_readiness in [0, 1], the readiness score that evaluate_task
\* returns lies in [0, 1].
C27_ReadinessScoreInUnitRange ==
    (/\ result.op = "readiness_score"
     /\ \A i \in 1..Len(result.value.task_challenges) :
            MetricsInUnitRange(result.value.task_challenges[i].metrics))
        => /\ 0 <= result.value.readiness_score.num
           /\ result.value.readiness_score.num <= result.value.readiness_score.den

\* Two challenges with metrics in range give a score strictly inside (0, 1).
C27_Witness ==
    /\ result.op = "readiness_score"
    /\ Len(result.value.task_challenges) = 2
    /\ \A i \in 1..2 : MetricsInUnitRange(result.value.task_challenges[i].metrics)
    /\ 0 < result.value.readiness_score.num
    /\ result.value.readiness_score.num < result.value.readiness_score.den

\* The entries of list that registry holds stand in the order of registry.
KeepsOrderOf(list, registry) ==
    \A a, b \in 1..Len(list) :
        (a < b /\ {list[a].name, list[b].name} \subseteq NameSet(registry))
            => IndexOf(registry, list[a].name) < IndexOf(registry, list[b].name)

\* Entries of equal impact score stand in the order of the registry.
ImpactTiesKeepOrder(list) ==
    \A a, b \in 1..Len(list) :
        (a < b /\ impact_score(list[a].metrics) = impact_score(list[b].metrics))
            => IndexOf(challenges, list[a].name) < IndexOf(challenges, list[b].name)

\* Entries of equal feasibility score stand in the order of the registry.
FeasibilityTiesKeepOrder(list) ==
    \A a, b \in 1..Len(list) :
        (a < b /\ feasibility_score(list[a].metrics) = feasibility_score(list[b].metrics))
            => IndexOf(solutions, list[a].name) < IndexOf(solutions, list[b].name)

\* C28: a register_* call leaves every name already present at its position,
\* also the name it overwrites, and the category, severity and metric
\* filters, the coverage keys and the ties of the two rankings always list
\* the entries in the order of these positions.
C28_ReRegistrationKeepsPosition ==
    /\ [][regs' = regs + 1 =>
            /\ \A i \in 1..Len(tasks) : tasks'[i].name = tasks[i].name
            /\ \A i \in 1..Len(challenges) : challenges'[i].name = challenges[i].name
            /\ \A i \in 1..Len(solutions) : solutions'[i].name = solutions[i].name]_vars
    /\ [](/\ \A category \in ChallengeCategories :
                KeepsOrderOf(get_challenges_by_category(category), challenges)
          /\ \A severity \in SeverityLevel :
                KeepsOrderOf(get_challenges_by_severity(severity), challenges)
          /\ KeepsOrderOf(get_quick_wins(QuickWinMonths), solutions)
          /\ \A effectiveness \in EffectivenessLevel :
                KeepsOrderOf(get_high_impact_solutions(effectiveness), solutions)
          /\ KeepsOrderOf(assess_solution_coverage, challenges)
          /\ ImpactTiesKeepOrder(get_challenge_impact_ranking)
          /\ FeasibilityTiesKeepOrder(get_feasibility_ranking))

\* A seeded challenge and a seeded solution have been overwritten with
\* different contents; each stands before entries registered after its
\* first registration, and the overwritten challenge ties in impact with
\* a later entry.
C28_Witness ==
    /\ \E i, j \in 1..Len(challenges) :
        /\ i < j
        /\ challenges[i] \in NewChallenges
        /\ challenges[i].name \in NameSet(SeedChallenges)
        /\ impact_score(challenges[i].metrics) = impact_score(challenges[j].metrics)
    /\ \E i \in 1..Len(solutions) - 1 :
        /\ solutions[i] \in NewSolutions
        /\ solutions[i].name \in NameSet(SeedSolutions)
        /\ solutions[i] \notin Range(SeedSolutions)

\* The counts of every dimension of a distribution add up to n.
DimensionsSumTo(distribution, n) ==
    \A dimension \in {"scope", "complexity", "intervention", "category"} :
        SumOver(DOMAIN distribution[dimension], distribution[dimension]) = n

\* C29: after any sequence of register_task calls, overwrites of a name
\* included, the counts of each of the four dimensions of
\* get_task_distribution() add up to the number of entries of the Task
\* Registry, which is the number of distinct names registered.
C29_DistributionCountsSumToTasks ==
    /\ Len(tasks) = Cardinality(NameSet(tasks))
    /\ DimensionsSumTo(get_task_distribution, Len(tasks))
    /\ result.op = "benchmark_current_state"
            => DimensionsSumTo(result.value.distribution, Len(tasks))

\* The distribution has been returned for a registry in which a seeded task
\* was overwritten with other metrics and a new task was added.
C29_Witness ==
    /\ result.op = "benchmark_current_state"
    /\ Len(tasks) = Len(SeedTasks) + 1
    /\ \E i \in 1..Len(SeedTasks) :
        /\ tasks[i] \in NewTasks
        /\ tasks[i].metrics # SeedTasks[i].metrics

\* C30: on the seeded dataset analyze_challenge_coverage reports 9 challenges,
\* all 9 covered, a coverage of 100 percent, no uncovered challenge,
\* "Library and API Version Updates" as the only under-addressed one, and
\* the "Diversify" recommendation for it as the only recommendation.
C30_SeededCoverageReport ==
    (Seeded /\ result.op = "analyze_challenge_coverage")
        => /\ result.kind = "ok"
           /\ result.value.total_challenges = 9
           /\ result.value.covered_challenges = 9
           /\ result.value.coverage_percentage.num
                = 100 * result.value.coverage_percentage.den
           /\ [k \in 1..Len(result.value.coverage_details) |->
                    result.value.coverage_details[k].count]
                = <<4, 3, 3, 4, 4, 3, 2, 1, 3>>
           /\ result.value.uncovered = <<>>
           /\ result.value.under_addressed = <<"Library and API Version Updates">>
           /\ Len(result.value.recommendations) = 1
           /\ result.value.recommendations[1].challenge = "Library and API Version Updates"
           /\ result.value.recommendations[1].text = "Diversify"

\* The report of the seeded dataset has been returned; the only challenge
\* with one solution stands in eighth place among the coverage keys.
C30_Witness ==
    /\ Seeded /\ result.op = "analyze_challenge_coverage"
    /\ result.value.coverage_details[8].name = "Library and API Version Updates"
    /\ result.value.coverage_details[8].count = 1

====
